---- MODULE Spec2Model ----
(***************************************************************************)
(* A model of the swupd client: the state-directory cleaner (clean.c) and  *)
(* the bundle add / remove engine (bundle.c).                              *)
(*                                                                         *)
(* File names are sequences of one-character strings, so that the name     *)
(* predicates of clean.c are computed on the characters, as the C code     *)
(* computes them.                                                          *)
(***************************************************************************)
EXTENDS Integers, Sequences, FiniteSets, TLC

(***************************************************************************)
(* Bounds of the model.                                                    *)
(***************************************************************************)
\* how many entries, beyond the fixed skeleton, the state directory holds
MaxExtra == 2

(***************************************************************************)
(* Program constants.                                                      *)
(***************************************************************************)
\* swupd.h: a hash is 64 hex characters plus the terminator (clean.c:158)
SWUPD_HASH_LEN == 65

SWUPD_OK == "SWUPD_OK"
SWUPD_COULDNT_LIST_DIR == "SWUPD_COULDNT_LIST_DIR"

(***************************************************************************)
(* Character helpers.                                                      *)
(***************************************************************************)
Rep(c, n) == [i \in 1..n |-> c]

\* isdigit(3)
isdigit(c) == c \in {"0", "1", "2", "3", "4", "5", "6", "7", "8", "9"}

\* isxdigit(3)
isxdigit(c) ==
    isdigit(c) \/ c \in {"a", "b", "c", "d", "e", "f", "A", "B", "C", "D", "E", "F"}

\* the characters of s from C index k (0-based) to the end
FromIdx(s, k) == SubSeq(s, k + 1, Len(s))

\* strncmp(s, prefix, strlen(prefix)) == 0
HasPrefix(s, prefix) ==
    Len(s) >= Len(prefix) /\ SubSeq(s, 1, Len(prefix)) = prefix

\* memcmp(s + len - strlen(suffix), suffix, strlen(suffix)) == 0
HasSuffix(s, suffix) ==
    Len(s) >= Len(suffix) /\ SubSeq(s, Len(s) - Len(suffix) + 1, Len(s)) = suffix

\* strstr(text, s) != NULL
strstr(text, s) ==
    \E k \in 0..(Len(text) - Len(s)) : SubSeq(text, k + 1, k + Len(s)) = s

(***************************************************************************)
(* The names used by the cleaner.                                          *)
(***************************************************************************)
ManifestPrefix == <<"M", "a", "n", "i", "f", "e", "s", "t", ".">>
DeltaPrefix == <<"M", "a", "n", "i", "f", "e", "s", "t", "-">>
PackPrefix == <<"p", "a", "c", "k", "-">>
PackSuffix == <<".", "t", "a", "r">>

N_staged == <<"s", "t", "a", "g", "e", "d">>
N_bundles == <<"b", "u", "n", "d", "l", "e", "s">>
N_oscore == <<"o", "s", "-", "c", "o", "r", "e">>
N_MoM == ManifestPrefix \o <<"M", "o", "M">>

(***************************************************************************)
(* clean.c: the name predicates.                                           *)
(***************************************************************************)
is_fullfile(name) == Len(name) = SWUPD_HASH_LEN - 1

is_pack_indicator(name) ==
    IF Len(name) < Len(PackPrefix) + Len(PackSuffix)
    THEN FALSE
    ELSE HasPrefix(name, PackPrefix) /\ HasSuffix(name, PackSuffix)

\* a variant that takes every name for a version: C9 has to notice it
is_all_digits_m(s) == TRUE

RECURSIVE is_all_digits(_)
is_all_digits(s) ==
    IF s = <<>> THEN TRUE
    ELSE IF ~isdigit(Head(s)) THEN FALSE
    ELSE is_all_digits(Tail(s))

RECURSIVE is_all_xdigits(_)
is_all_xdigits(s) ==
    IF s = <<>> THEN TRUE
    ELSE IF ~isxdigit(Head(s)) THEN FALSE
    ELSE is_all_xdigits(Tail(s))

is_manifest(name) == HasPrefix(name, ManifestPrefix)

\* the for loop of is_hashed_manifest: i counts the '.' characters of ename
RECURSIVE CountDots(_)
CountDots(s) ==
    IF s = <<>> THEN 0
    ELSE (IF Head(s) = "." THEN 1 ELSE 0) + CountDots(Tail(s))

\* strrchr(s, '.') + 1, for an s that holds a '.'
RECURSIVE AfterLastDot(_)
AfterLastDot(s) ==
    IF CountDots(Tail(s)) = 0 THEN Tail(s) ELSE AfterLastDot(Tail(s))

\* sizeof("Manifest."): the prefix's nine characters and its terminator
HashedStart == Len(ManifestPrefix) + 1

\* is_hashed_manifest reads entry->d_name from index `start' on.  For the
\* name "Manifest." that index lies past the string's terminator: what the
\* scan finds there is not defined, and `oob' is the answer it then gives.
is_hashed_manifest(name, oob) ==
    IF ~is_manifest(name) THEN FALSE
    ELSE IF Len(name) < HashedStart THEN oob
    ELSE LET ename == FromIdx(name, HashedStart)
         IN  IF CountDots(ename) # 1 THEN FALSE
             ELSE is_all_xdigits(AfterLastDot(ename))

is_manifest_delta(name) == HasPrefix(name, DeltaPrefix)

\* remove_predicate_func: the predicate remove_if is called with
pred(which, name, oob) ==
    CASE which = "is_fullfile" -> is_fullfile(name)
      [] which = "is_pack_indicator" -> is_pack_indicator(name)
      [] which = "is_manifest_delta" -> is_manifest_delta(name)
      [] which = "is_manifest" -> is_manifest(name)
      [] which = "is_hashed_manifest" -> is_hashed_manifest(name, oob)


(***************************************************************************)
(* The state directory.  fs maps each name in state_dir to a node: a file, *)
(* or a directory with the entries it holds.  An entry of a directory is a *)
(* file, an empty directory ("dir") or a directory that holds something    *)
(* ("fulldir"), which rmdir(2) refuses to remove.                          *)
(***************************************************************************)
VARIABLES
    fs,             \* the state directory
    fs0,            \* the state directory when clean started
    cur_version,    \* get_current_version(path_prefix): a name, or NoVersion
    cpc,            \* where clean_statedir stands
    opt_dry_run,    \* options.dry_run
    opt_all,        \* options.all
    files_removed,  \* stats.files_removed
    cret,           \* the code clean_statedir returns
    mom_contents,   \* clean_staged_manifests: the MoM text, or NULL
    todo,           \* clean_staged_manifests: entries readdir has yet to give
    visit           \* the version directories visited, in readdir's order

cvars == <<fs, fs0, cur_version, cpc, opt_dry_run, opt_all, files_removed,
           cret, mom_contents, todo, visit>>

(***************************************************************************)
(* The system bundle-add and bundle-remove act on.  live maps each path of *)
(* the tree under path_prefix to its type ("F", "D") and content; updates  *)
(* maps a path to the content of its staged sibling <path>.update.         *)
(***************************************************************************)
VARIABLES
    live,           \* the live tree under path_prefix
    updates,        \* the <final>.update files in the live tree
    tracked,        \* the tracking files in state_dir/bundles
    blobs,          \* state_dir/staged: hash |-> content of the blob
    pc,             \* where the command stands
    args,           \* the bundles the command line names
    idx,            \* the position of the running loop in its list
    ret,            \* ret of remove_bundles / install_bundles
    ret_code,       \* remove_bundles: ret_code
    bad,            \* remove_bundles: bad
    total,          \* remove_bundles: total
    returned,       \* the code the command returned, or NULL while it runs
    subs,           \* install_bundles: *subs, the new subscriptions
    to_install_bundles, \* install_bundles: to_install_bundles, or NULL
    to_install_files,   \* install_bundles: to_install_files
    invalid_bundle_provided,
    already_installed,
    bundles_installed,
    live0,          \* the live tree when the command started
    tracked0,       \* the tracking files when the command started
    before,         \* the live tree and tracking files before the latest
                    \* iteration of the loop of remove_bundles
    unlink_failed,  \* the paths whose unlink failed in the latest iteration
    staged_recs,    \* the filenames do_staging has staged
    renamed_recs,   \* the filenames rename_staged_file_to_final was given
    sync_calls,     \* how often sync() ran
    scripts_calls,  \* how often scripts_run_post_update() ran
    skip_diskspace_check, \* the option --skip-diskspace-check
    summary,        \* install_bundles: the totals it printed, if it did
    iter_rets,      \* remove_bundles: ret at the end of each iteration
    load_failed,    \* add_subscriptions: a manifest it needed did not load
    progress,       \* install_bundles: the lines and steps it put out, in order
    trav,           \* the traversals alone: what a call is given, if one is made
    trav_out,       \* the traversals alone: the function called and its result
    live_init       \* the live tree before the first command

bvars == <<live, updates, tracked, blobs, pc, args, idx, ret, ret_code, bad,
           total, returned, subs, to_install_bundles, to_install_files,
           invalid_bundle_provided, already_installed, bundles_installed,
           live0, tracked0, before, unlink_failed, staged_recs, renamed_recs,
           sync_calls, scripts_calls, skip_diskspace_check, summary,
           iter_rets, load_failed, progress, trav, trav_out, live_init>>

(***************************************************************************)
(* curl.c: the calls of retry_download_loop in one process.                *)
(***************************************************************************)
VARIABLES
    dpc,            \* where the call is: "idle", "enter", "get_file", "retry", "done"
    curl,           \* the handle is initialized (curl != NULL)
    max_retries,    \* the global max_retries
    retry_delay,    \* the global retry_delay
    content_url_is_local, \* the global content_url_is_local
    resume_ok,      \* the argument resume_ok
    resume_download_supported, \* the static of swupd_curl_get_file_full
    on_disk,        \* lstat(filename) succeeds: a file is there from before
    current_retry,  \* the local current_retry
    sleep_time,     \* the local sleep_time
    status,         \* what swupd_curl_get_file_full returned last
    dret,           \* what retry_download_loop returned
    outcomes,       \* the statuses swupd_curl_get_file_full returned, in order
    sleeps,         \* the arguments of sleep(), in order
    transfers,      \* how often curl_easy_perform was reached in this call
    entry,          \* the function the download was asked of
    in_memory_file, \* the argument in_memory_file is not NULL
    calls,          \* how many calls of retry_download_loop the process made
    last_xfer,      \* the last transfer: whether a file was there, whether
                    \* resume was still supported, whether it resumed
    range_error_seen, \* a transfer of the process ended with a range error
    resumed_after_range_error, \* and a later transfer resumed
    capath,         \* the alternative CA path, "NULL" when there is none
    init_log,       \* the calls of swupd_curl_init and swupd_curl_deinit
    connected,      \* check_connection returned 0 since the last deinit
    curl_ret,       \* process_curl_error_codes: the result of the transfer
    getinfo_ok,     \* whether CURLINFO_RESPONSE_CODE can be read
    response,       \* the response code the handle holds
    code_status     \* what process_curl_error_codes returned

dvars == <<dpc, curl, max_retries, retry_delay, content_url_is_local,
           resume_ok, resume_download_supported, on_disk, current_retry,
           sleep_time, status, dret, outcomes, sleeps, transfers, entry,
           in_memory_file, calls, last_xfer, range_error_seen,
           resumed_after_range_error, capath, init_log, connected, curl_ret,
           getinfo_ok, response, code_status>>

\* the state of swupd_curl_init, and of a call of process_curl_error_codes
ivars == <<capath, init_log, connected>>
pvars == <<curl_ret, getinfo_ok, response, code_status>>

\* swupd_curl_init has not been called
CurlIdle ==
    /\ capath = "NULL"
    /\ init_log = <<>>
    /\ connected = FALSE

\* process_curl_error_codes is not called
CodesIdle ==
    /\ curl_ret = "none"
    /\ getinfo_ok = FALSE
    /\ response = 0
    /\ code_status = "none"

\* retry_download_loop is not called
NoDownload ==
    /\ dpc = "idle"
    /\ curl = FALSE
    /\ max_retries = 0
    /\ retry_delay = 0
    /\ content_url_is_local = FALSE
    /\ resume_ok = FALSE
    /\ resume_download_supported = TRUE
    /\ on_disk = FALSE
    /\ current_retry = 0
    /\ sleep_time = 0
    /\ status = "none"
    /\ dret = 0
    /\ outcomes = <<>>
    /\ sleeps = <<>>
    /\ transfers = 0
    /\ entry = "none"
    /\ in_memory_file = FALSE
    /\ calls = 0
    /\ last_xfer = [had_file |-> FALSE, supported |-> FALSE, resumed |-> FALSE]
    /\ range_error_seen = FALSE
    /\ resumed_after_range_error = FALSE

DownloadIdle == NoDownload /\ CurlIdle /\ CodesIdle

vars == <<cvars, bvars, dvars>>

NULL == "NULL"
NoVersion == "NoVersion"

\* the locals of remove_bundles and install_bundles before either runs
BundleLocalsInit ==
    /\ pc = "idle"
    /\ args = <<>>
    /\ idx = 0
    /\ ret = SWUPD_OK
    /\ ret_code = SWUPD_OK
    /\ bad = 0
    /\ total = 0
    /\ returned = NULL
    /\ subs = <<>>
    /\ to_install_bundles = NULL
    /\ to_install_files = <<>>
    /\ invalid_bundle_provided = FALSE
    /\ already_installed = 0
    /\ bundles_installed = 0
    /\ unlink_failed = {}
    /\ staged_recs = {}
    /\ renamed_recs = {}
    /\ sync_calls = 0
    /\ scripts_calls = 0
    /\ skip_diskspace_check = FALSE
    /\ summary = <<>>
    /\ iter_rets = <<>>
    /\ load_failed = FALSE
    /\ progress = <<>>

\* no call of a traversal alone is made
TravIdle == trav = <<>> /\ trav_out = <<>>

\* no bundle command runs: an empty tree, which clean does not look at
NoBundleCommand ==
    /\ live = <<>>
    /\ updates = <<>>
    /\ tracked = {}
    /\ blobs = <<>>
    /\ live0 = live
    /\ tracked0 = tracked
    /\ before = [live |-> live, tracked |-> tracked]
    /\ live_init = live
    /\ BundleLocalsInit

BundleIdle == NoBundleCommand /\ TravIdle

FileNode == [kind |-> "file", sub |-> {}]
DirNode(entries) == [kind |-> "dir", sub |-> entries]
Ent(n, k) == [name |-> n, kind |-> k]

\* what readdir + lstat give for the entries of state_dir itself
RootDirents(f) ==
    {Ent(n, IF f[n].kind = "file" THEN "file"
            ELSE IF f[n].sub = {} THEN "dir" ELSE "fulldir") : n \in DOMAIN f}

\* opendir(path) succeeds
CanOpen(f, n) == n \in DOMAIN f /\ f[n].kind = "dir"

\* f without the root entries named in names
DropRoot(f, names) == [n \in (DOMAIN f) \ names |-> f[n]]

\* f with the entries named in names dropped from directory d
DropSub(f, d, names) ==
    [f EXCEPT ![d] = DirNode({e \in f[d].sub : e.name \notin names})]

(***************************************************************************)
(* clean.c: remove_if.  The loop treats each entry on its own, so its      *)
(* result is given per set: the names removed and the increments of        *)
(* stats.files_removed.  With dry_run nothing is removed and every entry   *)
(* the predicate accepts is counted; otherwise an entry is counted when    *)
(* its rmdir or unlink returned 0.                                         *)
(***************************************************************************)
remove_if(entries, dry_run, which, oob) ==
    LET matched == {e \in entries : pred(which, e.name, oob)}
        \* rmdir fails on a directory that is not empty; unlink succeeds
        gone == {e \in matched : e.kind # "fulldir"}
    IN  IF dry_run
        THEN [removed |-> {}, count |-> Cardinality(matched)]
        ELSE [removed |-> {e.name : e \in gone}, count |-> Cardinality(gone)]

\* clean_statedir: remove_if(staged_dir, dry_run, is_fullfile)
clean_staged_files(f, dry_run) ==
    IF ~CanOpen(f, N_staged)
    THEN [fs |-> f, count |-> 0, ret |-> SWUPD_COULDNT_LIST_DIR]
    ELSE LET r == remove_if(f[N_staged].sub, dry_run, "is_fullfile", FALSE)
         IN  [fs |-> DropSub(f, N_staged, r.removed), count |-> r.count,
              ret |-> SWUPD_OK]

\* clean_statedir: remove_if(state_dir, dry_run, is_pack_indicator) and
\* remove_if(state_dir, dry_run, is_manifest_delta)
clean_root(f, dry_run, which) ==
    LET r == remove_if(RootDirents(f), dry_run, which, FALSE)
    IN  [fs |-> DropRoot(f, r.removed), count |-> r.count, ret |-> SWUPD_OK]

\* read_mom_contents(current_version), unless --all
read_mom_contents(f, all, version, text) ==
    IF all \/ version = NoVersion THEN NULL
    ELSE IF CanOpen(f, version) /\ Ent(N_MoM, "file") \in f[version].sub
         THEN text
         ELSE NULL

\* clean_staged_manifests: one turn of the readdir loop, for an entry whose
\* name is all digits
\* a variant that never looks at the MoM text and always removes the hashed
\* manifests only: C8 has to notice it
clean_version_dir_m(f, dry_run, mom, name, oob) ==
    IF ~CanOpen(f, name)
    THEN [fs |-> f, count |-> 0, ret |-> SWUPD_COULDNT_LIST_DIR]
    ELSE LET r == remove_if(f[name].sub, dry_run, "is_hashed_manifest", oob)
             g == DropSub(f, name, r.removed)
         IN  [fs |-> IF g[name].sub = {} THEN DropRoot(g, {name}) ELSE g,
              count |-> r.count, ret |-> SWUPD_OK]

clean_version_dir(f, dry_run, mom, name, oob) ==
    LET which == IF mom # NULL /\ strstr(mom, name)
                 THEN "is_hashed_manifest" ELSE "is_manifest"
    IN  IF ~CanOpen(f, name)
        THEN \* remove_if could not open it; rmdir fails as well
             [fs |-> f, count |-> 0, ret |-> SWUPD_COULDNT_LIST_DIR]
        ELSE LET r == remove_if(f[name].sub, dry_run, which, oob)
                 g == DropSub(f, name, r.removed)
             IN  \* (void)rmdir(version_dir), whatever dry_run says
                 [fs |-> IF g[name].sub = {} THEN DropRoot(g, {name}) ELSE g,
                  count |-> r.count, ret |-> SWUPD_OK]


(***************************************************************************)
(* The state directories the cleaner is run on: a skeleton (staged/,       *)
(* bundles/ and three version directories) and at most MaxExtra entries    *)
(* drawn from Pool, which holds a name for every case of every predicate.  *)
(***************************************************************************)
V20 == <<"2", "0">>    \* the current version; the MoM names it
V2 == <<"2">>          \* no version of the MoM, yet a substring of its text
V3 == <<"3">>          \* neither
N7 == <<"7">>          \* a regular file whose name is all digits

\* the text of state/20/Manifest.MoM: a header line and the os-core record
MoMText ==
    <<"v", "e", "r", "s", "i", "o", "n", ":", "\t">> \o V20 \o <<"\n", "\n">>
    \o <<"M", ".", ".", ".", "\t", "a", "b", "c", "\t">> \o V20 \o <<"\t">>
    \o N_oscore \o <<"\n">>

\* the versions the MoM refers to
MoMVersions == {V20}

Mf(tail) == ManifestPrefix \o tail

N_Mb == Mf(<<"b">>)                               \* Manifest.b
N_Mb_hash == Mf(<<"b", ".", "a", "1">>)           \* Manifest.b.a1
N_Mb_iter == Mf(<<"b", ".", "I", ".", "1">>)      \* Manifest.b.I.1
N_Mb_sig == Mf(<<"b", "b", ".", "s", "i", "g">>)  \* Manifest.bb.sig
N_Mdot_hash == Mf(<<".", "b", ".", "a", "1">>)    \* Manifest..b.a1
N_Mbare == Mf(<<>>)                               \* Manifest.
N_Md_hash == Mf(<<"d", ".", "a", "1">>)           \* Manifest.d.a1
N_other == <<"n", "o", "t", "e", "s">>
N_pack_a == PackPrefix \o <<"a">> \o PackSuffix
N_pack_b == PackPrefix \o <<"b">> \o PackSuffix
N_delta == DeltaPrefix \o <<"b">>
H64a == Rep("a", SWUPD_HASH_LEN - 1)
H64g == Rep("g", SWUPD_HASH_LEN - 1)
H63 == Rep("a", SWUPD_HASH_LEN - 2)

Root == <<>>
Item(d, n, k) == [dir |-> d, ent |-> Ent(n, k)]

Pool ==
    {Item(N_staged, H64a, "file"), Item(N_staged, H64g, "fulldir"),
     Item(N_staged, H63, "file"),
     Item(Root, N_pack_a, "file"), Item(Root, N_pack_b, "fulldir"),
     Item(Root, N_delta, "file"), Item(Root, N7, "file"),
     Item(Root, N_other, "file"),
     Item(V20, N_MoM, "file"), Item(V20, N_Mb, "file"),
     Item(V20, N_Mb_hash, "file"), Item(V20, N_Mb_iter, "file"),
     Item(V20, N_Mb_sig, "file"), Item(V20, N_Mdot_hash, "file"),
     Item(V20, N_Mbare, "file"), Item(V20, N_Md_hash, "fulldir"),
     Item(V20, N_other, "file"),
     Item(V2, N_Mb, "file"), Item(V2, N_Mb_hash, "file"),
     Item(V3, N_MoM, "file"), Item(V3, N_Mb, "file"),
     Item(V3, N_Mb_hash, "file"), Item(V3, N_other, "file"),
     Item(N_bundles, N_oscore, "file"), Item(N_bundles, N_Mb_hash, "file")}

\* the subsets of S with at most k elements
RECURSIVE KSubsets(_, _)
KSubsets(S, k) ==
    IF k = 0 THEN {{}}
    ELSE LET prev == KSubsets(S, k - 1)
         IN  prev \cup {p \cup {x} : p \in prev, x \in S}

SkeletonDirs(stagedPresent) ==
    {N_bundles, V20, V2, V3} \cup (IF stagedPresent THEN {N_staged} ELSE {})

BuildFs(items, stagedPresent) ==
    LET dirs == SkeletonDirs(stagedPresent)
        top == {i \in items : i.dir = Root}
        kindOf(n) == (CHOOSE i \in top : i.ent.name = n).ent.kind
    IN  [n \in dirs \cup {i.ent.name : i \in top} |->
            IF n \in dirs
            THEN DirNode({i.ent : i \in {j \in items : j.dir = n}})
            ELSE IF kindOf(n) = "file" THEN FileNode
            ELSE IF kindOf(n) = "dir" THEN DirNode({})
            ELSE DirNode({Ent(N_other, "file")})]

\* the state directory before clean runs
CleanStateInit ==
    /\ \E items \in KSubsets(Pool, MaxExtra), sp \in BOOLEAN :
          /\ (N_staged \in {i.dir : i \in items}) => sp
          /\ fs = BuildFs(items, sp)
    /\ fs0 = fs
    /\ cur_version \in {NoVersion, V20}
    /\ cpc = "idle"
    /\ opt_dry_run = FALSE
    /\ opt_all = FALSE
    /\ files_removed = 0
    /\ cret = SWUPD_OK
    /\ mom_contents = NULL
    /\ todo = {}
    /\ visit = <<>>

CleanInit == CleanStateInit /\ BundleIdle /\ DownloadIdle

(***************************************************************************)
(* clean.c: clean_statedir(dry_run, all), step by step.                    *)
(***************************************************************************)
\* a variant that also removes every <final>.update of the live tree: C19
\* has to notice it
CleanStart_u ==
    /\ cpc = "idle"
    /\ \E d \in BOOLEAN, a \in BOOLEAN :
          /\ opt_dry_run' = d
          /\ opt_all' = a
    /\ cpc' = "staged"
    /\ updates' = <<>>
    /\ UNCHANGED <<fs, fs0, cur_version, files_removed, cret, mom_contents,
                   todo, visit>>
    /\ UNCHANGED <<live, tracked, blobs, pc, args, idx, ret, ret_code, bad,
                   total, returned, subs, to_install_bundles, to_install_files,
                   invalid_bundle_provided, already_installed,
                   bundles_installed, live0, tracked0, before, unlink_failed,
                   staged_recs, renamed_recs, sync_calls, scripts_calls,
                   skip_diskspace_check, summary, iter_rets, load_failed,
                   progress, trav, trav_out, live_init>>
    /\ UNCHANGED dvars

\* clean_main: the options are parsed and clean_statedir is entered
CleanStart ==
    /\ cpc = "idle"
    /\ \E d \in BOOLEAN, a \in BOOLEAN :
          /\ opt_dry_run' = d
          /\ opt_all' = a
    /\ cpc' = "staged"
    /\ UNCHANGED <<fs, fs0, cur_version, files_removed, cret, mom_contents,
                   todo, visit>>
    /\ UNCHANGED bvars
    /\ UNCHANGED dvars

\* remove_if(staged_dir, dry_run, is_fullfile); a failure ends clean_statedir
CleanStaged ==
    /\ cpc = "staged"
    /\ LET r == clean_staged_files(fs, opt_dry_run)
       IN  /\ fs' = r.fs
           /\ files_removed' = files_removed + r.count
           /\ cret' = r.ret
           /\ cpc' = IF r.ret # SWUPD_OK THEN "done" ELSE "packs"
    /\ UNCHANGED <<fs0, cur_version, opt_dry_run, opt_all, mom_contents,
                   todo, visit>>
    /\ UNCHANGED bvars
    /\ UNCHANGED dvars

\* remove_if(state_dir, dry_run, is_pack_indicator)
CleanPacks ==
    /\ cpc = "packs"
    /\ LET r == clean_root(fs, opt_dry_run, "is_pack_indicator")
       IN  /\ fs' = r.fs
           /\ files_removed' = files_removed + r.count
           /\ cret' = r.ret
    /\ cpc' = "deltas"
    /\ UNCHANGED <<fs0, cur_version, opt_dry_run, opt_all, mom_contents,
                   todo, visit>>
    /\ UNCHANGED bvars
    /\ UNCHANGED dvars

\* remove_if(state_dir, dry_run, is_manifest_delta)
CleanDeltas ==
    /\ cpc = "deltas"
    /\ LET r == clean_root(fs, opt_dry_run, "is_manifest_delta")
       IN  /\ fs' = r.fs
           /\ files_removed' = files_removed + r.count
           /\ cret' = r.ret
    /\ cpc' = "manifests"
    /\ UNCHANGED <<fs0, cur_version, opt_dry_run, opt_all, mom_contents,
                   todo, visit>>
    /\ UNCHANGED bvars
    /\ UNCHANGED dvars

\* clean_staged_manifests: opendir(state_dir) and the read of the MoM text.
\* Of the entries readdir will give, only those whose names are all digits
\* are looked at.
CleanManifestsOpen ==
    /\ cpc = "manifests"
    /\ mom_contents' = read_mom_contents(fs, opt_all, cur_version, MoMText)
    /\ todo' = {n \in DOMAIN fs : is_all_digits(n)}
    /\ cpc' = "vdirs"
    /\ UNCHANGED <<fs, fs0, cur_version, opt_dry_run, opt_all, files_removed,
                   cret, visit>>
    /\ UNCHANGED bvars
    /\ UNCHANGED dvars

\* the answers is_hashed_manifest can give for the entries of directory n
OobChoices(f, n) ==
    IF CanOpen(f, n) /\ \E e \in f[n].sub : e.name = N_Mbare
    THEN BOOLEAN ELSE {FALSE}

\* clean_staged_manifests: readdir gives one more all-digits entry, in an
\* order of its own; a failure of remove_if ends the loop
CleanVersionDir ==
    /\ cpc = "vdirs"
    /\ \E n \in todo : \E oob \in OobChoices(fs, n) :
          LET r == clean_version_dir(fs, opt_dry_run, mom_contents, n, oob)
          IN  /\ fs' = r.fs
              /\ files_removed' = files_removed + r.count
              /\ cret' = r.ret
              /\ todo' = todo \ {n}
              /\ visit' = Append(visit, [name |-> n, oob |-> oob])
              /\ cpc' = IF r.ret # SWUPD_OK THEN "done" ELSE "vdirs"
    /\ UNCHANGED <<fs0, cur_version, opt_dry_run, opt_all, mom_contents>>
    /\ UNCHANGED bvars
    /\ UNCHANGED dvars

\* clean_staged_manifests: readdir gives no more entries
CleanManifestsEnd ==
    /\ cpc = "vdirs"
    /\ todo = {}
    /\ cpc' = "done"
    /\ UNCHANGED <<fs, fs0, cur_version, opt_dry_run, opt_all, files_removed,
                   cret, mom_contents, todo, visit>>
    /\ UNCHANGED bvars
    /\ UNCHANGED dvars

CleanNext ==
    \/ CleanStart
    \/ CleanStaged
    \/ CleanPacks
    \/ CleanDeltas
    \/ CleanManifestsOpen
    \/ CleanVersionDir
    \/ CleanManifestsEnd

SpecClean == CleanInit /\ [][CleanNext]_vars


(***************************************************************************)
(* clean_statedir as a function of the state directory it starts from,     *)
(* for the order `order' in which readdir gives the all-digits entries.    *)
(***************************************************************************)
RECURSIVE clean_staged_manifests(_, _, _, _)
clean_staged_manifests(st, dry_run, mom, order) ==
    IF order = <<>> THEN st
    ELSE LET r == clean_version_dir(st.fs, dry_run, mom, Head(order).name,
                                    Head(order).oob)
             nx == [fs |-> r.fs, count |-> st.count + r.count, ret |-> r.ret]
         IN  IF r.ret # SWUPD_OK THEN nx
             ELSE clean_staged_manifests(nx, dry_run, mom, Tail(order))

clean_statedir(f, dry_run, all, version, order) ==
    LET a == clean_staged_files(f, dry_run)
    IN  IF a.ret # SWUPD_OK THEN a
        ELSE LET b == clean_root(a.fs, dry_run, "is_pack_indicator")
                 c == clean_root(b.fs, dry_run, "is_manifest_delta")
                 mom == read_mom_contents(c.fs, all, version, MoMText)
             IN  clean_staged_manifests(
                     [fs |-> c.fs, count |-> a.count + b.count + c.count,
                      ret |-> SWUPD_OK],
                     dry_run, mom, order)

(***************************************************************************)
(* The claims about clean.                                                 *)
(***************************************************************************)
\* every path under the state directory: <<directory, name>>
Paths(f) ==
    {<<Root, n>> : n \in DOMAIN f}
    \cup UNION {{<<n, e.name>> : e \in f[n].sub} : n \in DOMAIN f}

\* the entry e of directory d of f0 is no longer there in f
Gone(f, d, e) == d \notin DOMAIN f \/ e \notin f[d].sub

CleanDone == cpc = "done"

\* C5: clean --dry-run makes no filesystem change: from the moment
\* clean_statedir(dry_run = true, all) starts, for both values of all, the
\* state directory holds exactly what it held before.
C5_DryRunChangesNothing ==
    (cpc # "idle" /\ opt_dry_run) => fs = fs0

\* the paths a run without --dry-run, from the same state directory and with
\* the same readdir order, deletes among those its predicates select (the
\* version directories it removes once they are empty are left out)
RealRunDeletes ==
    LET real == clean_statedir(fs0, FALSE, opt_all, cur_version, visit)
    IN  {p \in Paths(fs0) \ Paths(real.fs) :
            ~(p[1] = Root /\ is_all_digits(p[2]))}

\* C6: the count clean --dry-run reports equals the number of entries that
\* clean without --dry-run, run from the same initial state, deletes, also
\* when an entry it selects cannot be removed (a directory that is not empty).
C6_DryRunCountIsRealCount ==
    (CleanDone /\ opt_dry_run) => files_removed = Cardinality(RealRunDeletes)

\* a name of the form Manifest.<bundle>.<hex>: after the prefix a bundle
\* name, exactly one '.', and a suffix of hex digits
IsHashedForm(name) ==
    /\ HasPrefix(name, ManifestPrefix)
    /\ LET tail == FromIdx(name, Len(ManifestPrefix))
       IN  /\ CountDots(tail) = 1
           /\ Head(tail) # "."
           /\ is_all_xdigits(AfterLastDot(tail))

\* a default-mode run without --dry-run that went through every directory
DefaultRunDone ==
    CleanDone /\ cret = SWUPD_OK /\ ~opt_dry_run /\ ~opt_all

\* the version directories of the initial state whose names occur in the
\* MoM text clean read
KeptVersionDirs ==
    {v \in DOMAIN fs0 : /\ CanOpen(fs0, v) /\ is_all_digits(v)
                        /\ mom_contents # NULL /\ strstr(mom_contents, v)}

\* C7: in default mode, in a version directory whose name occurs in the MoM
\* text, clean removes exactly the files named Manifest.<bundle>.<hex> (one
\* dot after the prefix, hex suffix) and keeps every other file, Manifest.MoM
\* and the plain Manifest.<bundle> among them.  (Stated for the names longer
\* than the prefix, on which is_hashed_manifest reads inside the name.)
C7_RemovesExactlyHashedManifests ==
    DefaultRunDone =>
        \A v \in KeptVersionDirs : \A e \in fs0[v].sub :
            (e.kind = "file" /\ Len(e.name) > Len(ManifestPrefix)) =>
                (Gone(fs, v, e) <=> IsHashedForm(e.name))

C9_BundlesUntouched ==
    /\ (N_bundles \in DOMAIN fs) <=> (N_bundles \in DOMAIN fs0)
    /\ N_bundles \in DOMAIN fs0 => fs[N_bundles] = fs0[N_bundles]

\* a finished run without --dry-run that removed something, with a hashed
\* manifest name lying in bundles/
C9_Witness ==
    /\ CleanDone /\ ~opt_dry_run /\ files_removed > 0
    /\ Ent(N_Mb_hash, "file") \in fs[N_bundles].sub


(***************************************************************************)
(***************************************************************************)
(* bundle.c: bundle-add and bundle-remove.                                 *)
(*                                                                         *)
(* The content server offers one version, with the MoM and the bundle      *)
(* manifests below.  A file record is [filename, hash, last_change, type,  *)
(* is_deleted, bundle]; the zero hash marks a tombstone.  Every bundle     *)
(* ships its marker file under /usr/share/clear/bundles (BUNDLES_DIR).     *)
(***************************************************************************)
(***************************************************************************)
\* how many bundles a command line names
MaxArgs == 2
\* how many of the ForeignPool's local changes the live tree starts with
MaxForeign == 1

SWUPD_CURRENT_VERSION_UNKNOWN == "SWUPD_CURRENT_VERSION_UNKNOWN"
SWUPD_INIT_FAILED == "SWUPD_INIT_FAILED"
SWUPD_COULDNT_LOAD_MOM == "SWUPD_COULDNT_LOAD_MOM"
SWUPD_COULDNT_LOAD_MANIFEST == "SWUPD_COULDNT_LOAD_MANIFEST"
SWUPD_RECURSE_MANIFEST == "SWUPD_RECURSE_MANIFEST"
SWUPD_INVALID_BUNDLE == "SWUPD_INVALID_BUNDLE"
SWUPD_BUNDLE_NOT_TRACKED == "SWUPD_BUNDLE_NOT_TRACKED"
SWUPD_REQUIRED_BUNDLE_ERROR == "SWUPD_REQUIRED_BUNDLE_ERROR"
SWUPD_DISK_SPACE_ERROR == "SWUPD_DISK_SPACE_ERROR"
SWUPD_COULDNT_REMOVE_FILE == "SWUPD_COULDNT_REMOVE_FILE"
SWUPD_COULDNT_DOWNLOAD_FILE == "SWUPD_COULDNT_DOWNLOAD_FILE"
SWUPD_COULDNT_STAGE_FILE == "SWUPD_COULDNT_STAGE_FILE"

add_sub_ERR == "add_sub_ERR"
add_sub_NEW == "add_sub_NEW"
add_sub_BADNAME == "add_sub_BADNAME"

\* the bundles of the MoM, in the order of their names
MoMBundles == <<"b1", "b2", "b3", "os-core">>
Bundles == {MoMBundles[i] : i \in DOMAIN MoMBundles}
\* a name the MoM does not hold
BadName == "bad"
BundleNames == Bundles \cup {BadName}

\* the includes of each bundle manifest
Includes(b) ==
    CASE b = "os-core" -> <<>>
      [] b = "b1" -> <<"os-core">>
      [] b = "b2" -> <<"os-core">>
      [] b = "b3" -> <<"os-core", "b1">>

BUNDLES_DIR == "/usr/share/clear/bundles"
Marker(b) == BUNDLES_DIR \o "/" \o b

ZeroHash == "0000"

\* every path a manifest lists, in the order of the names
PathOrder ==
    <<"/core", "/etc/conf", "/gone", "/only3", "/opt/only2", "/shared",
      "/usr/bin/t", Marker("b1"), Marker("b2"), Marker("b3"),
      Marker("os-core")>>
ListedPaths == {PathOrder[i] : i \in DOMAIN PathOrder}
PathIndex(p) == CHOOSE i \in DOMAIN PathOrder : PathOrder[i] = p
BundleIndex(b) == CHOOSE i \in DOMAIN MoMBundles : MoMBundles[i] = b

Rec(b, fn, h, lc, ty) ==
    [filename |-> fn, hash |-> h, last_change |-> lc, type |-> ty,
     is_deleted |-> FALSE, bundle |-> b]
Tomb(b, fn, lc) ==
    [filename |-> fn, hash |-> ZeroHash, last_change |-> lc, type |-> "F",
     is_deleted |-> TRUE, bundle |-> b]

\* the file list of each bundle manifest
ManifestFiles(b) ==
    CASE b = "os-core" ->
            {Rec(b, Marker(b), "h_m_core", 10, "F"),
             Rec(b, "/core", "h_core", 10, "F")}
      [] b = "b1" ->
            {Rec(b, Marker(b), "h_m_b1", 20, "F"),
             Rec(b, "/usr/bin/t", "h_dir_t", 20, "D"),
             Rec(b, "/shared", "h_shared", 10, "F")}
      [] b = "b2" ->
            {Rec(b, Marker(b), "h_m_b2", 20, "F"),
             Rec(b, "/shared", "h_shared", 10, "F"),
             Rec(b, "/opt/only2", "h_only2", 20, "F"),
             Tomb(b, "/gone", 20)}
      [] b = "b3" ->
            {Rec(b, Marker(b), "h_m_b3", 20, "F"),
             Rec(b, "/only3", "h_only3", 20, "F"),
             Rec(b, "/etc/conf", "h_conf", 20, "F")}

\* the directory a path lies in, for the one path whose directory no
\* manifest lists
HasParent(p) == p = "/opt/only2"
Parent(p) == "/opt"

\* ignore(): the paths the updater must not touch (configuration, state)
ignore(file) == file.filename \in {"/etc/conf"}

\* search_bundle_in_manifest(mom, bundle) != NULL
search_bundle_in_manifest(bundle) == bundle \in Bundles

(***************************************************************************)
(* The file-set consolidator.                                              *)
(***************************************************************************)
\* files_from_bundles: the file lists of the manifests, concatenated
files_from_bundles(manifests) == UNION {ManifestFiles(b) : b \in manifests}

\* the sort order of consolidate_files: filename, then is_deleted ascending,
\* then last_change descending; a tie goes to the first bundle by name
SortsBefore(r, s) ==
    IF r.is_deleted # s.is_deleted THEN ~r.is_deleted
    ELSE IF r.last_change # s.last_change THEN r.last_change > s.last_change
    ELSE BundleIndex(r.bundle) < BundleIndex(s.bundle)

\* consolidate_files: one record per filename, the first after the sort
consolidate_files(files) ==
    {r \in files :
        \A s \in files : (s.filename = r.filename /\ s # r) => SortsBefore(r, s)}

filter_out_deleted_files(files) == {r \in files : ~r.is_deleted}

\* keeps the entries of a whose (filename, hash) does not appear in b
filter_out_existing_files(a, b) ==
    {r \in a : ~\E s \in b : s.filename = r.filename /\ s.hash = r.hash}

\* a file list as the list sorted by filename
RECURSIVE SortedList(_)
SortedList(files) ==
    IF files = {} THEN <<>>
    ELSE LET first == CHOOSE r \in files :
                 \A s \in files : PathIndex(r.filename) <= PathIndex(s.filename)
         IN  <<first>> \o SortedList(files \ {first})

\* a set of bundle names as the list sorted by name
RECURSIVE SortedBundles(_)
SortedBundles(S) ==
    IF S = {} THEN <<>>
    ELSE LET first == CHOOSE b \in S : \A c \in S : BundleIndex(b) <= BundleIndex(c)
         IN  <<first>> \o SortedBundles(S \ {first})

SeqToSet(q) == {q[i] : i \in DOMAIN q}


(***************************************************************************)
(* The live tree and the state directory of the bundle commands.           *)
(***************************************************************************)
Entry(ty, c) == [type |-> ty, content |-> c]
Put(l, p, e) == [q \in (DOMAIN l) \cup {p} |-> IF q = p THEN e ELSE l[q]]
Del(l, P) == [q \in (DOMAIN l) \ P |-> l[q]]
Merge(l, m) == [q \in (DOMAIN l) \cup (DOMAIN m) |-> IF q \in DOMAIN m THEN m[q] ELSE l[q]]

\* the records of a subscription set that the installer puts into the tree
InstalledRecords(S) ==
    {r \in consolidate_files(files_from_bundles(S)) : ~r.is_deleted /\ ~ignore(r)}

\* the live tree an installation of the bundles S leaves on an empty system
InstalledTree(S) ==
    LET recs == InstalledRecords(S)
        names == {r.filename : r \in recs}
        parents == {Parent(p) : p \in {q \in names : HasParent(q)}}
    IN  [p \in names \cup parents |->
            IF p \in names
            THEN LET r == CHOOSE x \in recs : x.filename = p
                 IN  Entry(r.type, r.hash)
            ELSE Entry("D", "dir")]

\* the sets of bundles a system can have installed: os-core, and with a
\* bundle every bundle it includes
InstalledSets ==
    {S \in SUBSET Bundles :
        /\ "os-core" \in S
        /\ \A b \in S : SeqToSet(Includes(b)) \subseteq S}

\* what the system may hold besides its bundles: entries the administrator
\* put into the tree, and in state_dir/staged a blob whose content is not
\* what its name says
Foreign(l, bl) == [live |-> l, blobs |-> bl]
ForeignPool ==
    {Foreign([p \in {"/only3"} |-> Entry("D", "local")], <<>>),
     Foreign([p \in {"/usr/bin/t"} |-> Entry("F", "local")], <<>>),
     Foreign([p \in {"/opt", "/opt/only2"} |->
                 IF p = "/opt" THEN Entry("D", "dir") ELSE Entry("F", "local")],
             <<>>),
     Foreign([p \in {"/gone"} |-> Entry("F", "local")], <<>>),
     Foreign([p \in {"/etc/conf"} |-> Entry("F", "local")], <<>>),
     Foreign([p \in {Marker(BadName)} |-> Entry("F", "local")], <<>>),
     Foreign(<<>>, [h \in {"h_only2"} |-> "corrupt"])}

RECURSIVE MergeAll(_, _)
MergeAll(l, ms) ==
    IF ms = {} THEN l
    ELSE LET m == CHOOSE x \in ms : TRUE
         IN  MergeAll(Merge(l, m), ms \ {m})

\* the command lines: up to MaxArgs bundle names, none of them twice, and
\* the command lines that name one bundle twice
ArgLists ==
    {q \in UNION {[1..n -> BundleNames] : n \in 1..MaxArgs} :
        \A i, j \in DOMAIN q : i # j => q[i] # q[j]}
    \cup {<<b, b>> : b \in BundleNames}

BundleInit ==
    /\ \E S \in InstalledSets, fo \in KSubsets(ForeignPool, MaxForeign) :
          /\ \A m \in fo : \A p \in DOMAIN m.live :
                p \in DOMAIN InstalledTree(S) => InstalledTree(S)[p] = m.live[p]
          /\ live = MergeAll(InstalledTree(S), {m.live : m \in fo})
          /\ blobs = MergeAll(<<>>, {m.blobs : m \in fo})
          \* state_dir/bundles tracks the bundles S, or is still empty (on
          \* the systems without a local entry)
          /\ tracked \in (IF fo = {} THEN {{}, S} ELSE {S})
    /\ updates = <<>>
    /\ live0 = live
    /\ tracked0 = tracked
    /\ before = [live |-> live, tracked |-> tracked]
    /\ live_init = live
    /\ BundleLocalsInit
    /\ TravIdle

\* no clean runs: an empty state directory
CleanIdle ==
    /\ fs = <<>>
    /\ fs0 = fs
    /\ cur_version = NoVersion
    /\ cpc = "idle"
    /\ opt_dry_run = FALSE
    /\ opt_all = FALSE
    /\ files_removed = 0
    /\ cret = SWUPD_OK
    /\ mom_contents = NULL
    /\ todo = {}
    /\ visit = <<>>

Init == BundleInit /\ CleanIdle /\ DownloadIdle

(***************************************************************************)
(* bundle.c: the helpers of remove_bundles.                                *)
(***************************************************************************)
\* stat(path_prefix/BUNDLES_DIR/bundle_name) succeeds
is_installed_bundle(bundle_name) == Marker(bundle_name) \in DOMAIN live

\* read_subscriptions: one subscription per file of the directory
\* is_installed_bundle looks into
read_subscriptions == {b \in BundleNames : is_installed_bundle(b)}

unload_tracked_bundle(bundle_name, s) ==
    [ret |-> IF bundle_name \in s THEN SWUPD_OK ELSE SWUPD_BUNDLE_NOT_TRACKED,
     subs |-> s \ {bundle_name}]

\* recurse_manifest(mom, subs, NULL, false, NULL): the manifests of the
\* subscriptions the MoM knows, by name; NULL when there is none or a load
\* fails
recurse_manifest(s, load_ok) ==
    IF ~load_ok \/ s \cap Bundles = {} THEN NULL
    ELSE SortedBundles(s \cap Bundles)

\* the pairs <<bundle, name>>, name an include of the manifest bundle, in
\* the order the two loops of required_by go through them; a manifest is a
\* record of its component and its includes
RECURSIVE ManifestPairs(_)
ManifestPairs(submanifests) ==
    IF submanifests = <<>> THEN <<>>
    ELSE LET b == Head(submanifests)
         IN  [i \in DOMAIN b.includes |-> <<b.component, b.includes[i]>>]
             \o ManifestPairs(Tail(submanifests))

\* mom->submanifests for the bundles of the list, with their manifests
SubManifests(names) ==
    [i \in DOMAIN names |->
        [component |-> names[i], includes |-> Includes(names[i])]]

\* a variant that indents the deeper entries by one level more: C39 has to
\* notice it
ReqdLine_m(component, recursion) ==
    IF recursion = 1
    THEN [indent |-> (recursion - 1) * 4 + 2, mark |-> "* ", name |-> component]
    ELSE [indent |-> recursion * 4, mark |-> "|-- ", name |-> component]

\* the entry for a bundle found at depth recursion: the width of the
\* padding, the mark and the name
ReqdLine(component, recursion) ==
    IF recursion = 1
    THEN [indent |-> (recursion - 1) * 4 + 2, mark |-> "* ", name |-> component]
    ELSE [indent |-> (recursion - 1) * 4, mark |-> "|-- ", name |-> component]

\* a variant that reports no bundle as requiring bundle_name: C11 has to
\* notice it
required_by_m(bundle_name, submanifests, recursion) == <<>>

\* required_by(&reqd_by, bundle_name, mom, recursion): the lines appended.
\* diverged is not in the code: it says that the call does not return.  A
\* call entered with recursion = k has k manifests of mom->submanifests on
\* its path; when that is more than the list has, one is there twice, and
\* the call for it goes the way of the first, for ever.
RECURSIVE required_by_in(_, _, _)
RECURSIVE required_by_loop(_, _, _, _)
required_by_loop(pairs, bundle_name, submanifests, recursion) ==
    IF pairs = <<>> THEN [lines |-> <<>>, diverged |-> FALSE]
    ELSE LET bundle == Head(pairs)[1]
             name == Head(pairs)[2]
             here == IF name = bundle_name
                     THEN LET r == required_by_in(bundle, submanifests,
                                                  recursion)
                          IN  [lines |-> <<ReqdLine(bundle, recursion)>>
                                         \o r.lines,
                               diverged |-> r.diverged]
                     ELSE [lines |-> <<>>, diverged |-> FALSE]
         IN  IF here.diverged THEN here
             ELSE LET rest == required_by_loop(Tail(pairs), bundle_name,
                                               submanifests, recursion)
                  IN  [lines |-> here.lines \o rest.lines,
                       diverged |-> rest.diverged]
required_by_in(bundle_name, submanifests, recursion) ==
    IF recursion > Len(submanifests)
    THEN [lines |-> <<>>, diverged |-> TRUE]
    ELSE required_by_loop(ManifestPairs(submanifests), bundle_name,
                          submanifests, recursion + 1)

\* required_by on the manifests of the bundles of the list
required_by(bundle_name, submanifests, recursion) ==
    required_by_in(bundle_name, SubManifests(submanifests), recursion).lines

\* deduplicate_files_from_manifest: the files of the bundle whose filename
\* the consolidated list of the other bundles does not hold
deduplicate_files_from_manifest(bundle_files, mom_files) ==
    {r \in bundle_files : ~\E s \in mom_files : s.filename = r.filename}

\* remove_files_in_manifest_from_fs: unlink of every file of the list; the
\* unlink of the paths in failed returns an error, which is logged
remove_files_in_manifest_from_fs(l, files, failed) ==
    Del(l, {r.filename : r \in files} \ failed)

\* swupd_rm of the tracking file
remove_tracked(t, bundle) == t \ {bundle}

\* track_installed: an empty tracking directory is first filled with a copy
\* of the system's BUNDLES_DIR, then the tracking file is created
is_populated_dir(t) == t # {}
track_installed(t, l, bundle_name) ==
    (IF is_populated_dir(t) THEN t
     ELSE {b \in BundleNames : Marker(b) \in DOMAIN l}) \cup {bundle_name}


(***************************************************************************)
(* bundle.c: remove_bundles(bundles).                                      *)
(***************************************************************************)
\* what the environment does to one iteration: nothing, or a failure of
\* load_mom, of recurse_manifest or of load_bundle_manifest
RemoveEnv == {"ok", "load_mom", "recurse_manifest", "load_bundle_manifest"}

\* a variant without deduplicate_files_from_manifest: C1 has to notice it
RemoveOwnedFiles_m(l, t, bundle, mom_files, failed) ==
    LET files == ManifestFiles(bundle)
    IN  [live |-> remove_files_in_manifest_from_fs(l, files, failed),
         tracked |-> remove_tracked(t, bundle),
         failed |-> failed \cap {r.filename : r \in files} \cap DOMAIN l]

\* a variant that removes the tracking file and leaves the files: C18 has to
\* notice it
RemoveOwnedFiles_k(l, t, bundle, mom_files, failed) ==
    [live |-> l, tracked |-> remove_tracked(t, bundle), failed |-> {}]

\* the end of an iteration: the files only the bundle owns are unlinked and
\* its tracking file is removed
RemoveOwnedFiles(l, t, bundle, mom_files, failed) ==
    LET files == deduplicate_files_from_manifest(ManifestFiles(bundle), mom_files)
    IN  [live |-> remove_files_in_manifest_from_fs(l, files, failed),
         tracked |-> remove_tracked(t, bundle),
         failed |-> failed \cap {r.filename : r \in files} \cap DOMAIN l]

\* a variant without the test for os-core: C10 has to notice it
remove_bundle_m(bundle, l, t, env, failed) ==
    LET fail(code) == [ret |-> code, bad |-> 1, live |-> l, tracked |-> t,
                       failed |-> {}]
        unl == unload_tracked_bundle(bundle, read_subscriptions)
        submanifests == recurse_manifest(unl.subs, env # "recurse_manifest")
    IN  IF ~is_installed_bundle(bundle) THEN fail(SWUPD_BUNDLE_NOT_TRACKED)
        ELSE IF env = "load_mom" THEN fail(SWUPD_COULDNT_LOAD_MOM)
        ELSE IF ~search_bundle_in_manifest(bundle) THEN fail(SWUPD_INVALID_BUNDLE)
        ELSE IF unl.ret # SWUPD_OK THEN fail(unl.ret)
        ELSE IF submanifests = NULL THEN fail(SWUPD_RECURSE_MANIFEST)
        ELSE IF required_by(bundle, submanifests, 0) # <<>>
             THEN fail(SWUPD_REQUIRED_BUNDLE_ERROR)
        ELSE IF env = "load_bundle_manifest" THEN fail(SWUPD_COULDNT_LOAD_MOM)
        ELSE LET mom_files == consolidate_files(
                                  files_from_bundles(SeqToSet(submanifests)))
                 r == RemoveOwnedFiles(l, t, bundle, mom_files, failed)
             IN  [ret |-> SWUPD_OK, bad |-> 0, live |-> r.live,
                  tracked |-> r.tracked, failed |-> r.failed]

\* one iteration of the loop over the bundles: the code it leaves in ret,
\* whether it counts as bad, and the tree and tracking files it leaves
remove_bundle(bundle, l, t, env, failed) ==
    LET fail(code) == [ret |-> code, bad |-> 1, live |-> l, tracked |-> t,
                       failed |-> {}]
        unl == unload_tracked_bundle(bundle, read_subscriptions)
        submanifests == recurse_manifest(unl.subs, env # "recurse_manifest")
    IN  IF bundle = "os-core" THEN fail(SWUPD_REQUIRED_BUNDLE_ERROR)
        ELSE IF ~is_installed_bundle(bundle) THEN fail(SWUPD_BUNDLE_NOT_TRACKED)
        ELSE IF env = "load_mom" THEN fail(SWUPD_COULDNT_LOAD_MOM)
        ELSE IF ~search_bundle_in_manifest(bundle) THEN fail(SWUPD_INVALID_BUNDLE)
        ELSE IF unl.ret # SWUPD_OK THEN fail(unl.ret)
        ELSE IF submanifests = NULL THEN fail(SWUPD_RECURSE_MANIFEST)
        ELSE IF required_by(bundle, submanifests, 0) # <<>>
             THEN fail(SWUPD_REQUIRED_BUNDLE_ERROR)
        ELSE IF env = "load_bundle_manifest" THEN fail(SWUPD_COULDNT_LOAD_MOM)
        ELSE LET mom_files == consolidate_files(
                                  files_from_bundles(SeqToSet(submanifests)))
                 r == RemoveOwnedFiles(l, t, bundle, mom_files, failed)
             IN  [ret |-> SWUPD_OK, bad |-> 0, live |-> r.live,
                  tracked |-> r.tracked, failed |-> r.failed]

\* the unlinks that may fail in one iteration: none, or that of one path
UnlinkFailures(bundle, env) ==
    IF env = "ok" /\ bundle \in Bundles
    THEN {{}} \cup {{r.filename} : r \in ManifestFiles(bundle)}
    ELSE {{}}

\* swupd_init and get_current_version, then the loop is entered
RemoveStart ==
    /\ pc = "idle"
    /\ \E bl \in ArgLists,
          init \in {SWUPD_OK, SWUPD_INIT_FAILED, SWUPD_CURRENT_VERSION_UNKNOWN} :
          /\ args' = bl
          /\ ret' = init
          /\ IF init = SWUPD_OK
             THEN pc' = "rm_loop" /\ idx' = 1 /\ returned' = NULL
             ELSE pc' = "rm_done" /\ idx' = 0 /\ returned' = init
    /\ ret_code' = SWUPD_OK
    /\ bad' = 0
    /\ total' = 0
    /\ iter_rets' = <<>>
    /\ UNCHANGED <<live, updates, tracked, blobs, subs, to_install_bundles,
                   to_install_files, invalid_bundle_provided,
                   already_installed, bundles_installed, live0, tracked0,
                   before, unlink_failed, staged_recs, renamed_recs,
                   sync_calls, scripts_calls>>
    /\ UNCHANGED <<skip_diskspace_check, summary, live_init>>
    /\ UNCHANGED load_failed
    /\ UNCHANGED progress
    /\ UNCHANGED <<trav, trav_out>>
    /\ UNCHANGED dvars
    /\ UNCHANGED cvars

\* a variant that keeps the code of the first iteration that failed: C15 has
\* to notice it
RemoveBundle_m ==
    /\ pc = "rm_loop"
    /\ idx <= Len(args)
    /\ \E env \in RemoveEnv : \E failed \in UnlinkFailures(args[idx], env) :
          LET r == remove_bundle(args[idx], live, tracked, env, failed)
          IN  /\ live' = r.live
              /\ tracked' = r.tracked
              /\ ret' = r.ret
              /\ bad' = bad + r.bad
              /\ ret_code' = IF r.ret # SWUPD_OK /\ ret_code = SWUPD_OK
                             THEN r.ret ELSE ret_code
              /\ unlink_failed' = r.failed
              /\ iter_rets' = Append(iter_rets, r.ret)
    /\ before' = [live |-> live, tracked |-> tracked]
    /\ total' = total + 1
    /\ idx' = idx + 1
    /\ UNCHANGED <<updates, blobs, pc, args, returned, subs,
                   to_install_bundles, to_install_files,
                   invalid_bundle_provided, already_installed,
                   bundles_installed, live0, tracked0, staged_recs,
                   renamed_recs, sync_calls, scripts_calls>>
    /\ UNCHANGED <<skip_diskspace_check, summary, live_init>>
    /\ UNCHANGED load_failed
    /\ UNCHANGED progress
    /\ UNCHANGED <<trav, trav_out>>
    /\ UNCHANGED dvars
    /\ UNCHANGED cvars

\* one iteration of for (; *bundles; ++bundles, total++)
RemoveBundle ==
    /\ pc = "rm_loop"
    /\ idx <= Len(args)
    /\ \E env \in RemoveEnv : \E failed \in UnlinkFailures(args[idx], env) :
          LET r == remove_bundle(args[idx], live, tracked, env, failed)
          IN  /\ live' = r.live
              /\ tracked' = r.tracked
              /\ ret' = r.ret
              /\ bad' = bad + r.bad
              /\ ret_code' = IF r.ret # SWUPD_OK THEN r.ret ELSE ret_code
              /\ unlink_failed' = r.failed
              /\ iter_rets' = Append(iter_rets, r.ret)
    /\ before' = [live |-> live, tracked |-> tracked]
    /\ total' = total + 1
    /\ idx' = idx + 1
    /\ UNCHANGED <<updates, blobs, pc, args, returned, subs,
                   to_install_bundles, to_install_files,
                   invalid_bundle_provided, already_installed,
                   bundles_installed, live0, tracked0, staged_recs,
                   renamed_recs, sync_calls, scripts_calls>>
    /\ UNCHANGED <<skip_diskspace_check, summary, live_init>>
    /\ UNCHANGED load_failed
    /\ UNCHANGED progress
    /\ UNCHANGED <<trav, trav_out>>
    /\ UNCHANGED dvars
    /\ UNCHANGED cvars

\* the loop is over: the summary is printed and ret_code returned
RemoveEnd ==
    /\ pc = "rm_loop"
    /\ idx > Len(args)
    /\ pc' = "rm_done"
    /\ returned' = ret_code
    /\ UNCHANGED <<live, updates, tracked, blobs, args, idx, ret, ret_code,
                   bad, total, subs, to_install_bundles, to_install_files,
                   invalid_bundle_provided, already_installed,
                   bundles_installed, live0, tracked0, before, unlink_failed,
                   staged_recs, renamed_recs, sync_calls, scripts_calls>>
    /\ UNCHANGED <<skip_diskspace_check, summary, iter_rets, live_init>>
    /\ UNCHANGED load_failed
    /\ UNCHANGED progress
    /\ UNCHANGED <<trav, trav_out>>
    /\ UNCHANGED dvars
    /\ UNCHANGED cvars

(***************************************************************************)
(* bundle.c: add_subscriptions(bundles, subs, mom, find_all, recursion).   *)
(* st holds ret, as the set of the flags or-ed into it, and *subs.  sys    *)
(* is what the function reads: sys.mom, the bundles of the MoM;            *)
(* sys.includes[b], the includes of the manifest of b; sys.installed, the  *)
(* bundles is_installed_bundle finds; sys.failing, the bundles whose       *)
(* manifest load_manifest cannot load.  Two fields of st are not in the    *)
(* code: failed says that load_manifest returned NULL somewhere, diverged  *)
(* that the call does not return.  A call at depth recursion has           *)
(* recursion + 1 bundles of the MoM on its path, each loaded and none      *)
(* subscribed; when that is more than the MoM has, one of them is there    *)
(* twice, and as a bundle is subscribed only after the call for its        *)
(* includes returned, the second visit goes the way of the first, for      *)
(* ever.                                                                   *)
(***************************************************************************)
\* a variant that finds no component subscribed: C37 has to notice it
component_subscribed_m(subs0, bundle) == FALSE

\* component_subscribed(subs, bundle): the list has a subscription for it
component_subscribed(subs0, bundle) == bundle \in SeqToSet(subs0)

SubsStart(subs0) ==
    [ret |-> {}, subs |-> subs0, failed |-> FALSE, diverged |-> FALSE]

RECURSIVE add_subscriptions_in(_, _, _, _, _)
add_subscriptions_in(bundles, st, find_all, recursion, sys) ==
    IF bundles = <<>> THEN st
    ELSE
      LET bundle == Head(bundles)
          next(st2) == add_subscriptions_in(Tail(bundles), st2, find_all,
                                            recursion, sys)
      IN  IF bundle \notin sys.mom
          THEN next([st EXCEPT !.ret = @ \cup {add_sub_BADNAME}])
          ELSE IF component_subscribed(st.subs, bundle) /\ recursion > 0
          THEN next(st)
          ELSE IF bundle \in sys.failing
          THEN [st EXCEPT !.ret = @ \cup {add_sub_ERR}, !.failed = TRUE]
          ELSE IF recursion >= Cardinality(sys.mom)
          THEN [st EXCEPT !.diverged = TRUE]
          ELSE
            LET r == IF sys.includes[bundle] # <<>>
                     THEN add_subscriptions_in(sys.includes[bundle],
                                               [st EXCEPT !.ret = {}],
                                               find_all, recursion + 1, sys)
                     ELSE [st EXCEPT !.ret = {}]
            IN  IF r.diverged THEN r
                ELSE IF add_sub_ERR \in r.ret
                THEN [r EXCEPT !.ret = st.ret]
                ELSE LET st1 == [r EXCEPT !.ret = st.ret \cup r.ret]
                     IN  IF ~find_all /\ bundle \in sys.installed
                         THEN next(st1)
                         ELSE IF component_subscribed(st1.subs, bundle)
                         THEN next(st1)
                         ELSE next([st1 EXCEPT
                                      !.ret = @ \cup {add_sub_NEW},
                                      !.subs = Append(@, bundle)])

\* what add_subscriptions reads when install_bundles calls it
TheSystem(failing) ==
    [mom |-> Bundles,
     includes |-> [b \in Bundles |-> Includes(b)],
     installed |-> {b \in Bundles : is_installed_bundle(b)},
     failing |-> failing]

\* add_subscriptions on the MoM and the manifests of the installer
add_subscriptions(bundles, st, find_all, recursion, failing) ==
    LET r == add_subscriptions_in(bundles, SubsStart(st.subs), find_all,
                                  recursion, TheSystem(failing))
    IN  [ret |-> st.ret \cup r.ret, subs |-> r.subs]

(***************************************************************************)
(* The installer's two operations on one file record.                      *)
(***************************************************************************)
\* do_staging(file, mom): the directory of the file is made sure to exist;
\* an entry of another type is removed; a directory is put at its final
\* name, anything else is copied from its blob to <final>.update.  It fails
\* without the blob.
do_staging(l, u, bl, file) ==
    LET fn == file.filename
        l1 == IF HasParent(fn) /\ Parent(fn) \notin DOMAIN l
              THEN Put(l, Parent(fn), Entry("D", "dir")) ELSE l
        l2 == IF fn \in DOMAIN l1 /\ l1[fn].type # file.type
              THEN Del(l1, {fn}) ELSE l1
    IN  IF file.hash \notin DOMAIN bl
        THEN [ret |-> SWUPD_COULDNT_STAGE_FILE, live |-> l, updates |-> u]
        ELSE IF file.type = "D"
        THEN [ret |-> SWUPD_OK, live |-> Put(l2, fn, Entry("D", bl[file.hash])),
              updates |-> u]
        ELSE [ret |-> SWUPD_OK, live |-> l2, updates |-> Put(u, fn, bl[file.hash])]

\* rename_staged_file_to_final(file): <final>.update is renamed to <final>;
\* a directory is already in place; its return value is not looked at
rename_staged_file_to_final(l, u, file) ==
    LET fn == file.filename
    IN  IF file.type # "D" /\ fn \in DOMAIN u
        THEN [live |-> Put(l, fn, Entry(file.type, u[fn])), updates |-> Del(u, {fn})]
        ELSE [live |-> l, updates |-> u]

\* the test both loops skip a record on; do_not_update is set for no record
SkipFile(file) == file.is_deleted \/ ignore(file)

\* a variant with one pass: each file is renamed as soon as it is staged.
\* C4 has to notice it
StageFile_m(l, u, bl, file, io_ok) ==
    IF SkipFile(file)
    THEN [ret |-> SWUPD_OK, live |-> l, updates |-> u, staged |-> {}]
    ELSE IF ~io_ok
    THEN [ret |-> SWUPD_COULDNT_STAGE_FILE, live |-> l, updates |-> u, staged |-> {}]
    ELSE LET r == do_staging(l, u, bl, file)
             n == rename_staged_file_to_final(r.live, r.updates, file)
         IN  IF r.ret # SWUPD_OK
             THEN [ret |-> r.ret, live |-> r.live, updates |-> r.updates,
                   staged |-> {}]
             ELSE [ret |-> r.ret, live |-> n.live, updates |-> n.updates,
                   staged |-> {file.filename}]

\* the body of the first loop for one record
StageFile(l, u, bl, file, io_ok) ==
    IF SkipFile(file)
    THEN [ret |-> SWUPD_OK, live |-> l, updates |-> u, staged |-> {}]
    ELSE IF ~io_ok
    THEN [ret |-> SWUPD_COULDNT_STAGE_FILE, live |-> l, updates |-> u, staged |-> {}]
    ELSE LET r == do_staging(l, u, bl, file)
         IN  [ret |-> r.ret, live |-> r.live, updates |-> r.updates,
              staged |-> IF r.ret = SWUPD_OK THEN {file.filename} ELSE {}]

\* a variant that renames nothing: C2 has to notice it
RenameFile_m(l, u, file) ==
    [live |-> l, updates |-> u,
     renamed |-> IF SkipFile(file) THEN {} ELSE {file.filename}]

\* the body of the second loop for one record
RenameFile(l, u, file) ==
    IF SkipFile(file)
    THEN [live |-> l, updates |-> u, renamed |-> {}]
    ELSE LET r == rename_staged_file_to_final(l, u, file)
         IN  [live |-> r.live, updates |-> r.updates, renamed |-> {file.filename}]

\* the list install_bundles_frontend builds: each name is put in front
RECURSIVE Reverse(_)
Reverse(q) == IF q = <<>> THEN <<>> ELSE Append(Reverse(Tail(q)), Head(q))
BundlesList == Reverse(args)

\* track_installed for every bundle of the list that is installed
RECURSIVE TrackAll(_, _, _)
TrackAll(t, l, names) ==
    IF names = <<>> THEN t
    ELSE TrackAll(track_installed(t, l, Head(names)), l, Tail(names))

\* the elements of a list that satisfy a membership test, in list order
RECURSIVE Filter(_, _)
Filter(q, S) ==
    IF q = <<>> THEN <<>>
    ELSE (IF Head(q) \in S THEN <<Head(q)>> ELSE <<>>) \o Filter(Tail(q), S)


(***************************************************************************)
(* bundle.c: install_bundles_frontend and install_bundles, step by step.   *)
(***************************************************************************)
\* the lines install_bundles puts out, and the two steps whose lines are
\* put out by the function the step calls
MsgLoading == "Loading required manifests..."
MsgSkipping == "Bundle is already installed, skipping it..."
MsgNoPacks == "No packs need to be downloaded"
StepFullfiles == "download_fullfiles"
MsgAborting == "Could not download some files from bundles, aborting bundle installation."
MsgInstalling == "Installing bundle(s) files..."
StepScripts == "scripts_run_post_update"
MsgFailed == "Failed to install bundles"
MsgInstalledOne == "Successfully installed 1 bundle"
MsgInstalledMany == "Successfully installed bundles"
MsgAlready == "bundle(s) already installed"

\* install_bundles_frontend: swupd_init, get_current_version, load_mom and
\* the list of bundles; then install_bundles is entered
InstallStart ==
    /\ pc = "idle"
    /\ \E bl \in ArgLists, skip \in BOOLEAN,
          init \in {SWUPD_OK, SWUPD_INIT_FAILED, SWUPD_CURRENT_VERSION_UNKNOWN,
                    SWUPD_COULDNT_LOAD_MOM} :
          \* the option is tried on the command lines with one bundle
          /\ skip => Len(bl) = 1 /\ init = SWUPD_OK
          /\ args' = bl
          /\ skip_diskspace_check' = skip
          /\ IF init = SWUPD_OK
             THEN pc' = "ib_subscribe" /\ returned' = NULL /\ ret' = ret
             ELSE pc' = "ib_done" /\ returned' = init /\ ret' = init
    /\ UNCHANGED <<live, updates, tracked, blobs, idx, ret_code, bad, total,
                   subs, to_install_bundles, to_install_files,
                   invalid_bundle_provided, already_installed,
                   bundles_installed, live0, tracked0, before, unlink_failed,
                   staged_recs, renamed_recs, sync_calls, scripts_calls>>
    /\ UNCHANGED <<summary, iter_rets, live_init>>
    /\ UNCHANGED load_failed
    /\ progress' = <<>>
    /\ UNCHANGED <<trav, trav_out>>
    /\ UNCHANGED dvars
    /\ UNCHANGED cvars

\* a variant that tracks every bundle of the command line, installed or
\* not: C16 has to notice it
IbSubscribe_m ==
    /\ pc = "ib_subscribe"
    /\ \E failing \in {{}} \cup {{b} : b \in Bundles} :
          LET r == add_subscriptions(BundlesList, [ret |-> {}, subs |-> subs],
                                     FALSE, 0, failing)
              inst == BundlesList
              r0 == add_subscriptions(BundlesList, [ret |-> {}, subs |-> subs],
                                      FALSE, 0, {})
          IN  /\ subs' = r.subs
              /\ load_failed' = (r # r0)
              /\ progress' = <<MsgLoading>> \o [i \in DOMAIN inst |-> MsgSkipping]
              /\ already_installed' = Len(inst)
              /\ tracked' = TrackAll(tracked, live, inst)
              /\ IF add_sub_NEW \notin r.ret
                 THEN /\ ret' = IF add_sub_ERR \in r.ret
                                THEN SWUPD_COULDNT_LOAD_MANIFEST
                                ELSE IF add_sub_BADNAME \in r.ret
                                THEN SWUPD_INVALID_BUNDLE
                                ELSE SWUPD_OK
                      /\ pc' = "ib_out"
                      /\ UNCHANGED invalid_bundle_provided
                 ELSE /\ invalid_bundle_provided' = (add_sub_BADNAME \in r.ret)
                      /\ pc' = "ib_load"
                      /\ UNCHANGED ret
    /\ UNCHANGED <<live, updates, blobs, args, idx, ret_code, bad, total,
                   returned, to_install_bundles, to_install_files,
                   bundles_installed, live0, tracked0, before, unlink_failed,
                   staged_recs, renamed_recs, sync_calls, scripts_calls>>
    /\ UNCHANGED <<skip_diskspace_check, summary, iter_rets, live_init>>
    /\ UNCHANGED <<trav, trav_out>>
    /\ UNCHANGED dvars
    /\ UNCHANGED cvars

\* step 1: add_subscriptions, the loop over the bundles already installed,
\* and the test of add_sub_NEW.  While ret holds the flags of
\* add_subscriptions it is no swupd_code, and the variable ret is left alone.
IbSubscribe ==
    /\ pc = "ib_subscribe"
    /\ \E failing \in {{}} \cup {{b} : b \in Bundles} :
          LET r == add_subscriptions(BundlesList, [ret |-> {}, subs |-> subs],
                                     FALSE, 0, failing)
              inst == Filter(BundlesList, {b \in BundleNames : is_installed_bundle(b)})
              r0 == add_subscriptions(BundlesList, [ret |-> {}, subs |-> subs],
                                      FALSE, 0, {})
          IN  /\ subs' = r.subs
              /\ load_failed' = (r # r0)
              /\ progress' = <<MsgLoading>> \o [i \in DOMAIN inst |-> MsgSkipping]
              /\ already_installed' = Len(inst)
              /\ tracked' = TrackAll(tracked, live, inst)
              /\ IF add_sub_NEW \notin r.ret
                 THEN /\ ret' = IF add_sub_ERR \in r.ret
                                THEN SWUPD_COULDNT_LOAD_MANIFEST
                                ELSE IF add_sub_BADNAME \in r.ret
                                THEN SWUPD_INVALID_BUNDLE
                                ELSE SWUPD_OK
                      /\ pc' = "ib_out"
                      /\ UNCHANGED invalid_bundle_provided
                 ELSE /\ invalid_bundle_provided' = (add_sub_BADNAME \in r.ret)
                      /\ pc' = "ib_load"
                      /\ UNCHANGED ret
    /\ UNCHANGED <<live, updates, blobs, args, idx, ret_code, bad, total,
                   returned, to_install_bundles, to_install_files,
                   bundles_installed, live0, tracked0, before, unlink_failed,
                   staged_recs, renamed_recs, sync_calls, scripts_calls>>
    /\ UNCHANGED <<skip_diskspace_check, summary, iter_rets, live_init>>
    /\ UNCHANGED <<trav, trav_out>>
    /\ UNCHANGED dvars
    /\ UNCHANGED cvars

\* the manifests to install and those installed are loaded; step 2: the
\* list of the files to install
IbLoad ==
    /\ pc = "ib_load"
    /\ \E env \in {"ok", "to_install", "installed"} :
          LET ti == recurse_manifest(SeqToSet(subs), env # "to_install")
              installed_bundles == recurse_manifest(read_subscriptions,
                                                    env # "installed")
              installed_files == filter_out_deleted_files(consolidate_files(
                                     files_from_bundles(SeqToSet(installed_bundles))))
              files == filter_out_deleted_files(consolidate_files(
                           files_from_bundles(SeqToSet(ti))))
          IN  IF ti = NULL
              THEN /\ ret' = SWUPD_RECURSE_MANIFEST
                   /\ pc' = "ib_out"
                   /\ UNCHANGED <<to_install_bundles, to_install_files>>
              ELSE IF installed_bundles = NULL
              THEN /\ ret' = SWUPD_RECURSE_MANIFEST
                   /\ pc' = "ib_out"
                   /\ to_install_bundles' = ti
                   /\ UNCHANGED to_install_files
              ELSE /\ to_install_bundles' = ti
                   /\ to_install_files' =
                         SortedList(filter_out_existing_files(files, installed_files))
                   /\ pc' = "ib_diskspace"
                   /\ UNCHANGED ret
    /\ UNCHANGED <<live, updates, tracked, blobs, args, idx, ret_code, bad,
                   total, returned, subs, invalid_bundle_provided,
                   already_installed, bundles_installed, live0, tracked0,
                   before, unlink_failed, staged_recs, renamed_recs,
                   sync_calls, scripts_calls>>
    /\ UNCHANGED <<skip_diskspace_check, summary, iter_rets, live_init>>
    /\ UNCHANGED load_failed
    /\ UNCHANGED progress
    /\ UNCHANGED <<trav, trav_out>>
    /\ UNCHANGED dvars
    /\ UNCHANGED cvars

\* a variant that checks the disk space although the check is to be
\* skipped: C13 has to notice it
IbDiskSpace_m ==
    /\ pc = "ib_diskspace"
    /\ \E enough \in BOOLEAN :
          IF ~enough
          THEN ret' = SWUPD_DISK_SPACE_ERROR /\ pc' = "ib_out"
          ELSE ret' = ret /\ pc' = "ib_download"
    /\ UNCHANGED <<live, updates, tracked, blobs, args, idx, ret_code, bad,
                   total, returned, subs, to_install_bundles, to_install_files,
                   invalid_bundle_provided, already_installed,
                   bundles_installed, live0, tracked0, before, unlink_failed,
                   staged_recs, renamed_recs, sync_calls, scripts_calls>>
    /\ UNCHANGED <<skip_diskspace_check, summary, iter_rets, live_init>>
    /\ UNCHANGED load_failed
    /\ UNCHANGED progress
    /\ UNCHANGED <<trav, trav_out>>
    /\ UNCHANGED dvars
    /\ UNCHANGED cvars

\* step 3: the check of the disk space, unless it is skipped
IbDiskSpace ==
    /\ pc = "ib_diskspace"
    /\ \E enough \in BOOLEAN :
          IF ~skip_diskspace_check /\ ~enough
          THEN ret' = SWUPD_DISK_SPACE_ERROR /\ pc' = "ib_out"
          ELSE ret' = ret /\ pc' = "ib_download"
    /\ UNCHANGED <<live, updates, tracked, blobs, args, idx, ret_code, bad,
                   total, returned, subs, to_install_bundles, to_install_files,
                   invalid_bundle_provided, already_installed,
                   bundles_installed, live0, tracked0, before, unlink_failed,
                   staged_recs, renamed_recs, sync_calls, scripts_calls>>
    /\ UNCHANGED <<skip_diskspace_check, summary, iter_rets, live_init>>
    /\ UNCHANGED load_failed
    /\ UNCHANGED progress
    /\ UNCHANGED <<trav, trav_out>>
    /\ UNCHANGED dvars
    /\ UNCHANGED cvars

\* a variant that downloads the fullfiles before it says that no packs are
\* needed: C23 has to notice it
IbDownload_m ==
    /\ pc = "ib_download"
    /\ \E ok \in BOOLEAN :
          IF ok
          THEN /\ blobs' = [h \in (DOMAIN blobs) \cup
                                  {to_install_files[i].hash : i \in DOMAIN to_install_files}
                              |-> IF h \in DOMAIN blobs THEN blobs[h] ELSE h]
               /\ ret' = SWUPD_OK
               /\ pc' = "ib_verify"
               /\ progress' = progress \o <<StepFullfiles, MsgNoPacks>>
          ELSE /\ ret' = SWUPD_COULDNT_DOWNLOAD_FILE
               /\ pc' = "ib_out"
               /\ UNCHANGED blobs
               /\ progress' = progress \o <<MsgNoPacks, StepFullfiles, MsgAborting>>
    /\ UNCHANGED <<live, updates, tracked, args, idx, ret_code, bad, total,
                   returned, subs, to_install_bundles, to_install_files,
                   invalid_bundle_provided, already_installed,
                   bundles_installed, live0, tracked0, before, unlink_failed,
                   staged_recs, renamed_recs, sync_calls, scripts_calls>>
    /\ UNCHANGED <<skip_diskspace_check, summary, iter_rets, live_init>>
    /\ UNCHANGED load_failed
    /\ UNCHANGED <<trav, trav_out>>
    /\ UNCHANGED dvars
    /\ UNCHANGED cvars

\* steps 4 and 5: no list here is longer than 10 files, so no pack is
\* fetched; download_fullfiles fetches the blob of every hash that
\* state_dir/staged does not hold, or fails
IbDownload ==
    /\ pc = "ib_download"
    /\ \E ok \in BOOLEAN :
          IF ok
          THEN /\ blobs' = [h \in (DOMAIN blobs) \cup
                                  {to_install_files[i].hash : i \in DOMAIN to_install_files}
                              |-> IF h \in DOMAIN blobs THEN blobs[h] ELSE h]
               /\ ret' = SWUPD_OK
               /\ pc' = "ib_verify"
               /\ progress' = progress \o <<MsgNoPacks, StepFullfiles>>
          ELSE /\ ret' = SWUPD_COULDNT_DOWNLOAD_FILE
               /\ pc' = "ib_out"
               /\ UNCHANGED blobs
               /\ progress' = progress \o <<MsgNoPacks, StepFullfiles, MsgAborting>>
    /\ UNCHANGED <<live, updates, tracked, args, idx, ret_code, bad, total,
                   returned, subs, to_install_bundles, to_install_files,
                   invalid_bundle_provided, already_installed,
                   bundles_installed, live0, tracked0, before, unlink_failed,
                   staged_recs, renamed_recs, sync_calls, scripts_calls>>
    /\ UNCHANGED <<skip_diskspace_check, summary, iter_rets, live_init>>
    /\ UNCHANGED load_failed
    /\ UNCHANGED <<trav, trav_out>>
    /\ UNCHANGED dvars
    /\ UNCHANGED cvars

\* a variant that keeps the blobs whose content is not their hash: C20 has
\* to notice it
IbVerify_m ==
    /\ pc = "ib_verify"
    /\ LET hashes == {to_install_files[i].hash : i \in DOMAIN to_install_files}
           corrupt == {h \in hashes \cap DOMAIN blobs : blobs[h] # h}
       IN  \E rm_ok \in BOOLEAN :
              IF corrupt # {} /\ ~rm_ok
              THEN /\ ret' = SWUPD_COULDNT_REMOVE_FILE
                   /\ pc' = "ib_out"
                   /\ UNCHANGED <<blobs, idx>>
              ELSE /\ blobs' = blobs
                   /\ pc' = "ib_stage"
                   /\ idx' = 1
                   /\ UNCHANGED ret
    /\ UNCHANGED <<live, updates, tracked, args, ret_code, bad, total,
                   returned, subs, to_install_bundles, to_install_files,
                   invalid_bundle_provided, already_installed,
                   bundles_installed, live0, tracked0, before, unlink_failed,
                   staged_recs, renamed_recs, sync_calls, scripts_calls>>
    /\ UNCHANGED <<skip_diskspace_check, summary, iter_rets, live_init>>
    /\ UNCHANGED load_failed
    /\ progress' = Append(progress, MsgInstalling)
    /\ UNCHANGED <<trav, trav_out>>
    /\ UNCHANGED dvars
    /\ UNCHANGED cvars

\* step 6, the first loop: a blob whose content is not its hash is removed
IbVerify ==
    /\ pc = "ib_verify"
    /\ LET hashes == {to_install_files[i].hash : i \in DOMAIN to_install_files}
           corrupt == {h \in hashes \cap DOMAIN blobs : blobs[h] # h}
       IN  \E rm_ok \in BOOLEAN :
              IF corrupt # {} /\ ~rm_ok
              THEN /\ ret' = SWUPD_COULDNT_REMOVE_FILE
                   /\ pc' = "ib_out"
                   /\ UNCHANGED <<blobs, idx>>
              ELSE /\ blobs' = [h \in (DOMAIN blobs) \ corrupt |-> blobs[h]]
                   /\ pc' = "ib_stage"
                   /\ idx' = 1
                   /\ UNCHANGED ret
    /\ UNCHANGED <<live, updates, tracked, args, ret_code, bad, total,
                   returned, subs, to_install_bundles, to_install_files,
                   invalid_bundle_provided, already_installed,
                   bundles_installed, live0, tracked0, before, unlink_failed,
                   staged_recs, renamed_recs, sync_calls, scripts_calls>>
    /\ UNCHANGED <<skip_diskspace_check, summary, iter_rets, live_init>>
    /\ UNCHANGED load_failed
    /\ progress' = Append(progress, MsgInstalling)
    /\ UNCHANGED <<trav, trav_out>>
    /\ UNCHANGED dvars
    /\ UNCHANGED cvars

\* a variant that goes on to the renames when do_staging fails: C3 has to
\* notice it
IbStage_m ==
    /\ pc = "ib_stage"
    /\ idx <= Len(to_install_files)
    /\ \E io_ok \in BOOLEAN :
          LET r == StageFile(live, updates, blobs, to_install_files[idx], io_ok)
          IN  /\ live' = r.live
              /\ updates' = r.updates
              /\ staged_recs' = staged_recs \cup r.staged
              /\ IF r.ret # SWUPD_OK
                 THEN ret' = r.ret /\ pc' = "ib_rename" /\ idx' = 1
                 ELSE ret' = (IF r.staged # {} THEN r.ret ELSE ret)
                      /\ pc' = pc /\ idx' = idx + 1
    /\ UNCHANGED <<tracked, blobs, args, ret_code, bad, total, returned, subs,
                   to_install_bundles, to_install_files,
                   invalid_bundle_provided, already_installed,
                   bundles_installed, live0, tracked0, before, unlink_failed,
                   renamed_recs, sync_calls, scripts_calls>>
    /\ UNCHANGED <<skip_diskspace_check, summary, iter_rets, live_init>>
    /\ UNCHANGED load_failed
    /\ UNCHANGED progress
    /\ UNCHANGED <<trav, trav_out>>
    /\ UNCHANGED dvars
    /\ UNCHANGED cvars

\* one iteration of the loop that stages the files
IbStage ==
    /\ pc = "ib_stage"
    /\ idx <= Len(to_install_files)
    /\ \E io_ok \in BOOLEAN :
          LET r == StageFile(live, updates, blobs, to_install_files[idx], io_ok)
          IN  /\ live' = r.live
              /\ updates' = r.updates
              /\ staged_recs' = staged_recs \cup r.staged
              /\ IF r.ret # SWUPD_OK
                 THEN ret' = r.ret /\ pc' = "ib_out" /\ idx' = idx
                 ELSE ret' = (IF r.staged # {} THEN r.ret ELSE ret)
                      /\ pc' = pc /\ idx' = idx + 1
    /\ UNCHANGED <<tracked, blobs, args, ret_code, bad, total, returned, subs,
                   to_install_bundles, to_install_files,
                   invalid_bundle_provided, already_installed,
                   bundles_installed, live0, tracked0, before, unlink_failed,
                   renamed_recs, sync_calls, scripts_calls>>
    /\ UNCHANGED <<skip_diskspace_check, summary, iter_rets, live_init>>
    /\ UNCHANGED load_failed
    /\ UNCHANGED progress
    /\ UNCHANGED <<trav, trav_out>>
    /\ UNCHANGED dvars
    /\ UNCHANGED cvars

\* the staging loop is over, the loop that renames begins
IbStageDone ==
    /\ pc = "ib_stage"
    /\ idx > Len(to_install_files)
    /\ pc' = "ib_rename"
    /\ idx' = 1
    /\ UNCHANGED <<live, updates, tracked, blobs, args, ret, ret_code, bad,
                   total, returned, subs, to_install_bundles, to_install_files,
                   invalid_bundle_provided, already_installed,
                   bundles_installed, live0, tracked0, before, unlink_failed,
                   staged_recs, renamed_recs, sync_calls, scripts_calls>>
    /\ UNCHANGED <<skip_diskspace_check, summary, iter_rets, live_init>>
    /\ UNCHANGED load_failed
    /\ UNCHANGED progress
    /\ UNCHANGED <<trav, trav_out>>
    /\ UNCHANGED dvars
    /\ UNCHANGED cvars

\* one iteration of the loop that renames the files
IbRename ==
    /\ pc = "ib_rename"
    /\ idx <= Len(to_install_files)
    /\ LET r == RenameFile(live, updates, to_install_files[idx])
       IN  /\ live' = r.live
           /\ updates' = r.updates
           /\ renamed_recs' = renamed_recs \cup r.renamed
    /\ idx' = idx + 1
    /\ UNCHANGED <<tracked, blobs, pc, args, ret, ret_code, bad, total,
                   returned, subs, to_install_bundles, to_install_files,
                   invalid_bundle_provided, already_installed,
                   bundles_installed, live0, tracked0, before, unlink_failed,
                   staged_recs, sync_calls, scripts_calls>>
    /\ UNCHANGED <<skip_diskspace_check, summary, iter_rets, live_init>>
    /\ UNCHANGED load_failed
    /\ UNCHANGED progress
    /\ UNCHANGED <<trav, trav_out>>
    /\ UNCHANGED dvars
    /\ UNCHANGED cvars

\* a variant that may leave the loop that renames early: C22 has to notice
\* it
IbSync_m ==
    /\ pc = "ib_rename"
    /\ sync_calls' = sync_calls + 1
    /\ pc' = "ib_scripts"
    /\ UNCHANGED <<live, updates, tracked, blobs, args, idx, ret, ret_code,
                   bad, total, returned, subs, to_install_bundles,
                   to_install_files, invalid_bundle_provided,
                   already_installed, bundles_installed, live0, tracked0,
                   before, unlink_failed, staged_recs, renamed_recs,
                   scripts_calls>>
    /\ UNCHANGED <<skip_diskspace_check, summary, iter_rets, live_init>>
    /\ UNCHANGED load_failed
    /\ UNCHANGED progress
    /\ UNCHANGED <<trav, trav_out>>
    /\ UNCHANGED dvars
    /\ UNCHANGED cvars

\* sync() after the loop that renames
IbSync ==
    /\ pc = "ib_rename"
    /\ idx > Len(to_install_files)
    /\ sync_calls' = sync_calls + 1
    /\ pc' = "ib_scripts"
    /\ UNCHANGED <<live, updates, tracked, blobs, args, idx, ret, ret_code,
                   bad, total, returned, subs, to_install_bundles,
                   to_install_files, invalid_bundle_provided,
                   already_installed, bundles_installed, live0, tracked0,
                   before, unlink_failed, staged_recs, renamed_recs,
                   scripts_calls>>
    /\ UNCHANGED <<skip_diskspace_check, summary, iter_rets, live_init>>
    /\ UNCHANGED load_failed
    /\ UNCHANGED progress
    /\ UNCHANGED <<trav, trav_out>>
    /\ UNCHANGED dvars
    /\ UNCHANGED cvars

\* step 7: scripts_run_post_update, and ret = SWUPD_OK
IbScripts ==
    /\ pc = "ib_scripts"
    /\ scripts_calls' = scripts_calls + 1
    /\ ret' = SWUPD_OK
    /\ pc' = "ib_out"
    /\ UNCHANGED <<live, updates, tracked, blobs, args, idx, ret_code, bad,
                   total, returned, subs, to_install_bundles, to_install_files,
                   invalid_bundle_provided, already_installed,
                   bundles_installed, live0, tracked0, before, unlink_failed,
                   staged_recs, renamed_recs, sync_calls>>
    /\ UNCHANGED <<skip_diskspace_check, summary, iter_rets, live_init>>
    /\ UNCHANGED load_failed
    /\ progress' = Append(progress, StepScripts)
    /\ UNCHANGED <<trav, trav_out>>
    /\ UNCHANGED dvars
    /\ UNCHANGED cvars

\* print totals: the numbers install_bundles prints after the out: loop
\* counted n bundles; the first line is "Failed to install <failed> of
\* <requested - already> bundles" when failed > 0, else "Successfully
\* installed <installed> bundle(s)" when installed > 0, and "<already>
\* bundle(s) already installed" follows when already > 0
print_totals(r, n, requested, already) ==
    [failed    |-> IF r # SWUPD_OK /\ n # 0
                   THEN requested - already
                   ELSE requested - n - already,
     installed |-> n,
     already   |-> already,
     requested |-> requested]

\* print totals: the lines printed for the numbers t
totals_lines(t) ==
    (IF t.failed > 0 THEN <<MsgFailed>>
     ELSE IF t.installed = 1 THEN <<MsgInstalledOne>>
     ELSE IF t.installed > 1 THEN <<MsgInstalledMany>>
     ELSE <<>>)
    \o (IF t.already > 0 THEN <<MsgAlready>> ELSE <<>>)

\* a variant that tracks every bundle of to_install_bundles, the includes
\* too: C24 has to notice it
IbOut_t ==
    /\ pc = "ib_out"
    /\ LET requested == IF to_install_bundles = NULL THEN <<>>
                        ELSE Filter(to_install_bundles, SeqToSet(BundlesList))
       IN  /\ bundles_installed' = Len(requested)
           /\ tracked' = TrackAll(tracked, live,
                               IF to_install_bundles = NULL THEN <<>>
                               ELSE to_install_bundles)
           /\ summary' = <<print_totals(ret, Len(requested), Len(BundlesList),
                                        already_installed)>>
           /\ progress' = progress \o
                 totals_lines(print_totals(ret, Len(requested),
                                           Len(BundlesList), already_installed))
    /\ ret' = IF invalid_bundle_provided /\ ret = SWUPD_OK
              THEN SWUPD_INVALID_BUNDLE ELSE ret
    /\ returned' = ret'
    /\ pc' = "ib_done"
    /\ UNCHANGED <<live, updates, blobs, args, idx, ret_code, bad, total, subs,
                   to_install_bundles, to_install_files,
                   invalid_bundle_provided, already_installed, live0, tracked0,
                   before, unlink_failed, staged_recs, renamed_recs,
                   sync_calls, scripts_calls>>
    /\ UNCHANGED <<skip_diskspace_check, iter_rets, live_init>>
    /\ UNCHANGED load_failed
    /\ UNCHANGED <<trav, trav_out>>
    /\ UNCHANGED dvars
    /\ UNCHANGED cvars

\* a variant that forgets invalid_bundle_provided: C12 has to notice it
IbOut_m ==
    /\ pc = "ib_out"
    /\ LET requested == IF to_install_bundles = NULL THEN <<>>
                        ELSE Filter(to_install_bundles, SeqToSet(BundlesList))
       IN  /\ bundles_installed' = Len(requested)
           /\ tracked' = TrackAll(tracked, live, requested)
           /\ summary' = <<print_totals(ret, Len(requested), Len(BundlesList),
                                        already_installed)>>
           /\ progress' = progress \o
                 totals_lines(print_totals(ret, Len(requested),
                                           Len(BundlesList), already_installed))
    /\ ret' = ret
    /\ returned' = ret'
    /\ pc' = "ib_done"
    /\ UNCHANGED <<live, updates, blobs, args, idx, ret_code, bad, total, subs,
                   to_install_bundles, to_install_files,
                   invalid_bundle_provided, already_installed, live0, tracked0,
                   before, unlink_failed, staged_recs, renamed_recs,
                   sync_calls, scripts_calls>>
    /\ UNCHANGED <<skip_diskspace_check, iter_rets, live_init>>
    /\ UNCHANGED load_failed
    /\ UNCHANGED <<trav, trav_out>>
    /\ UNCHANGED dvars
    /\ UNCHANGED cvars

\* out: the requested bundles among to_install_bundles are counted and
\* tracked, the totals printed, and ret returned
IbOut ==
    /\ pc = "ib_out"
    /\ LET requested == IF to_install_bundles = NULL THEN <<>>
                        ELSE Filter(to_install_bundles, SeqToSet(BundlesList))
       IN  /\ bundles_installed' = Len(requested)
           /\ tracked' = TrackAll(tracked, live, requested)
           /\ summary' = <<print_totals(ret, Len(requested), Len(BundlesList),
                                        already_installed)>>
           /\ progress' = progress \o
                 totals_lines(print_totals(ret, Len(requested),
                                           Len(BundlesList), already_installed))
    /\ ret' = IF invalid_bundle_provided /\ ret = SWUPD_OK
              THEN SWUPD_INVALID_BUNDLE ELSE ret
    /\ returned' = ret'
    /\ pc' = "ib_done"
    /\ UNCHANGED <<live, updates, blobs, args, idx, ret_code, bad, total, subs,
                   to_install_bundles, to_install_files,
                   invalid_bundle_provided, already_installed, live0, tracked0,
                   before, unlink_failed, staged_recs, renamed_recs,
                   sync_calls, scripts_calls>>
    /\ UNCHANGED <<skip_diskspace_check, iter_rets, live_init>>
    /\ UNCHANGED load_failed
    /\ UNCHANGED <<trav, trav_out>>
    /\ UNCHANGED dvars
    /\ UNCHANGED cvars

\* a second command: after bundle-add of one bundle returned SWUPD_OK,
\* bundle-remove is run with the same command line
RemoveAfterAdd ==
    /\ pc = "ib_done"
    /\ returned = SWUPD_OK
    /\ Len(args) = 1
    /\ \E init \in {SWUPD_OK, SWUPD_INIT_FAILED} :
          /\ ret' = init
          /\ IF init = SWUPD_OK
             THEN pc' = "rm_loop" /\ idx' = 1 /\ returned' = NULL
             ELSE pc' = "rm_done" /\ idx' = 0 /\ returned' = init
    /\ ret_code' = SWUPD_OK
    /\ bad' = 0
    /\ total' = 0
    /\ iter_rets' = <<>>
    /\ live0' = live
    /\ tracked0' = tracked
    /\ before' = [live |-> live, tracked |-> tracked]
    /\ unlink_failed' = {}
    /\ UNCHANGED <<live, updates, tracked, blobs, args, subs,
                   to_install_bundles, to_install_files,
                   invalid_bundle_provided, already_installed,
                   bundles_installed, staged_recs, renamed_recs, sync_calls,
                   scripts_calls>>
    /\ UNCHANGED <<skip_diskspace_check, summary, live_init>>
    /\ UNCHANGED load_failed
    /\ UNCHANGED progress
    /\ UNCHANGED <<trav, trav_out>>
    /\ UNCHANGED dvars
    /\ UNCHANGED cvars

RemoveNext == RemoveStart \/ RemoveBundle \/ RemoveEnd \/ RemoveAfterAdd

InstallNext ==
    \/ InstallStart
    \/ IbSubscribe
    \/ IbLoad
    \/ IbDiskSpace
    \/ IbDownload
    \/ IbVerify
    \/ IbStage
    \/ IbStageDone
    \/ IbRename
    \/ IbSync
    \/ IbScripts
    \/ IbOut

Next == RemoveNext \/ InstallNext

Spec == Init /\ [][Next]_vars

(***************************************************************************)
(* clean after an installation that was interrupted between its two loops. *)
(***************************************************************************)
\* the first loop of install_bundles over the list files
RECURSIVE StageAll(_, _, _, _)
StageAll(l, u, bl, files) ==
    IF files = <<>> THEN [live |-> l, updates |-> u]
    ELSE LET r == StageFile(l, u, bl, Head(files), TRUE)
         IN  StageAll(r.live, r.updates, bl, Tail(files))

\* what bundle-add X leaves on a system that holds the bundles S, none of
\* them an include of X that is missing, when the process is killed after
\* the first loop: every file is staged, none is renamed
Interrupted(X, S) ==
    LET installed_files == filter_out_deleted_files(consolidate_files(
                               files_from_bundles(S)))
        files == filter_out_deleted_files(consolidate_files(
                     files_from_bundles({X})))
        list == SortedList(filter_out_existing_files(files, installed_files))
        bl == [h \in {list[i].hash : i \in DOMAIN list} |-> h]
        r == StageAll(InstalledTree(S), <<>>, bl, list)
    IN  [live |-> r.live, updates |-> r.updates, blobs |-> bl]

InterruptedInit ==
    /\ \E X \in {"b2"} :
          LET r == Interrupted(X, {"os-core"})
          IN  /\ live = r.live
              /\ updates = r.updates
              /\ blobs = r.blobs
    /\ tracked = {}
    /\ live0 = live
    /\ tracked0 = tracked
    /\ before = [live |-> live, tracked |-> tracked]
    /\ live_init = live
    /\ BundleLocalsInit
    /\ TravIdle

InitInterrupted == CleanStateInit /\ InterruptedInit /\ DownloadIdle

SpecInterrupted == InitInterrupted /\ [][CleanNext]_vars


(***************************************************************************)
(***************************************************************************)
(* The claims about bundle-remove and bundle-add.                          *)
(***************************************************************************)
(***************************************************************************)
\* the bundles installed when the command started
Installed0 == {b \in Bundles : Marker(b) \in DOMAIN live0}

Filenames(files) == {r.filename : r \in files}

\* path p is in tree l what it is in tree m, absent or present
SameAt(l, m, p) ==
    /\ (p \in DOMAIN l) <=> (p \in DOMAIN m)
    /\ p \in DOMAIN l => l[p] = m[p]

\* remove_bundles([t]) has returned success
Removed(t) ==
    pc = "rm_done" /\ args = <<t>> /\ returned = SWUPD_OK

\* the paths only t lists, and those another installed bundle lists as well
OwnedOnlyBy(t) ==
    Filenames(ManifestFiles(t)) \ Filenames(files_from_bundles(Installed0 \ {t}))
SharedBy(t) ==
    Filenames(ManifestFiles(t)) \cap Filenames(files_from_bundles(Installed0 \ {t}))

\* C1 as stated: after remove_bundles([t]) returns success, no path only t's
\* manifest lists exists in the live tree, and every path another installed
\* bundle lists as well is still there with unchanged content.
C1_Original ==
    \A t \in Bundles :
        Removed(t) =>
            /\ \A p \in OwnedOnlyBy(t) : p \notin DOMAIN live
            /\ \A p \in SharedBy(t) : SameAt(live, live0, p)

\* C1 as amended: after remove_bundles([t]) returns success, every path only
\* t's manifest lists is gone from the live tree unless its unlink failed
\* (the failure is logged and does not change the return code), and every
\* path another installed bundle lists as well is as it was.
C1_RemovesOwnedKeepsShared ==
    \A t \in Bundles :
        Removed(t) =>
            /\ \A p \in OwnedOnlyBy(t) : p \notin DOMAIN live \/ p \in unlink_failed
            /\ \A p \in SharedBy(t) : SameAt(live, live0, p)

\* b2 was removed next to b1: /shared, which both list, is there, and
\* /opt/only2, which only b2 lists, is gone
C1_Witness ==
    /\ Removed("b2")
    /\ "b1" \in Installed0
    /\ "/shared" \in DOMAIN live
    /\ "/opt/only2" \in DOMAIN live0
    /\ "/opt/only2" \notin DOMAIN live

\* the bundles install_bundles set out to install (A) and all bundles then
\* installed (A and B)
ToInstall == SeqToSet(subs)
AllBundles == Installed0 \cup ToInstall

\* install_bundles has returned SWUPD_OK
Installed == pc = "ib_done" /\ returned = SWUPD_OK

\* the tree l holds the consolidated, tombstone-free list of the bundles S,
\* path for path, and none of the paths S lists besides
HoldsExactly(l, S) ==
    LET want == filter_out_deleted_files(consolidate_files(files_from_bundles(S)))
    IN  \A p \in Filenames(files_from_bundles(S)) :
            IF p \in Filenames(want)
            THEN LET r == CHOOSE x \in want : x.filename = p
                 IN  p \in DOMAIN l /\ l[p] = Entry(r.type, r.hash)
            ELSE p \notin DOMAIN l

\* the tree l holds every record of the bundles S that the installer does
\* not skip
HoldsInstalled(l, S) ==
    \A r \in InstalledRecords(S) :
        r.filename \in DOMAIN l /\ l[r.filename] = Entry(r.type, r.hash)

\* C2 as stated: when install_bundles returns SWUPD_OK over a tree that held
\* the records of the installed set B, the (path, hash) records of the live
\* tree are those of consolidate_files(A and B) without the tombstones.
C2_Original ==
    (Installed /\ HoldsExactly(live0, Installed0)) =>
        HoldsExactly(live, AllBundles)

\* C2 as amended: when install_bundles returns SWUPD_OK over a tree that held
\* the records of the installed set B which the installer does not skip, the
\* live tree holds every record of consolidate_files(A and B) that is neither
\* a tombstone nor skipped (ignore), with its type and hash; the paths that
\* are listed only by tombstones or skipped records are as they were.
C2_InstallsConsolidatedFiles ==
    (Installed /\ HoldsInstalled(live0, Installed0)) =>
        /\ HoldsInstalled(live, AllBundles)
        /\ \A p \in Filenames(files_from_bundles(AllBundles))
                     \ Filenames(InstalledRecords(AllBundles)) :
               SameAt(live, live0, p)

\* b2 was installed next to b1: its own file is in the tree, with the
\* content of its blob
C2_Witness ==
    /\ Installed
    /\ "b2" \in ToInstall
    /\ "b1" \in Installed0
    /\ "/opt/only2" \in renamed_recs
    /\ live["/opt/only2"] = Entry("F", "h_only2")

\* the filenames both loops act on
ToStage ==
    {to_install_files[i].filename :
        i \in {j \in DOMAIN to_install_files : ~SkipFile(to_install_files[j])}}

\* the record of to_install_files for path p
FileAt(p) ==
    to_install_files[CHOOSE i \in DOMAIN to_install_files :
                        to_install_files[i].filename = p]

\* the paths the second loop has dealt with: those handed to
\* rename_staged_file_to_final, and the staged files whose <final>.update is
\* no longer there
RenamedPaths ==
    renamed_recs \cup
    {p \in staged_recs : FileAt(p).type # "D" /\ p \notin DOMAIN updates}

\* C3: no record is renamed before every record has been staged; so when
\* do_staging fails for a record, no record is renamed.
C3_StageAllBeforeRename ==
    /\ RenamedPaths # {} => staged_recs = ToStage
    /\ (pc \in {"ib_out", "ib_done"} /\ staged_recs # ToStage) => RenamedPaths = {}

\* the second loop is under way, with more than one file to rename
C3_Witness ==
    /\ pc = "ib_rename"
    /\ Cardinality(ToStage) > 1
    /\ renamed_recs # {}
    /\ renamed_recs # ToStage

\* install_bundles is in its first loop, or between the loops: an interrupt
\* here is one after the staging began and before the renames begin
Staging == pc = "ib_stage"

\* C4 as stated: interrupted while staging, the live tree is untouched: every
\* path is there with the content it had, and nothing is new but the
\* <final>.update files.
C4_Original == Staging => live = live0

\* a directory the first loop puts in place: a directory record, or the
\* directory of a record
DirPlaced(p) ==
    /\ p \in DOMAIN live
    /\ live[p].type = "D"
    /\ \/ p \in ToStage /\ FileAt(p).type = "D"
       \/ \E q \in ToStage : HasParent(q) /\ Parent(q) = p

\* an entry the first loop removes: its type is not that of the record to
\* install
TypeChanged(p) ==
    /\ p \in DOMAIN live0
    /\ p \in ToStage
    /\ FileAt(p).type # live0[p].type

\* C4 as amended: interrupted while staging, every path is as it was, except
\* that an entry whose type differs from that of the record to install at its
\* path has been removed, and that directories (directory records, and
\* missing directories of records) are already in place under their final
\* names; files are new only as <final>.update.
C4_StagingLeavesFilesAlone ==
    Staging =>
        \A p \in (DOMAIN live) \cup (DOMAIN live0) :
            \/ SameAt(live, live0, p)
            \/ DirPlaced(p)
            \/ TypeChanged(p) /\ p \notin DOMAIN live

\* the first loop is over for a list with a file: its <final>.update exists
\* and its final name does not
C4_Witness ==
    /\ Staging
    /\ idx > Len(to_install_files)
    /\ "/opt/only2" \in DOMAIN updates
    /\ "/opt/only2" \notin DOMAIN live

IncludedByInstalled(t, l) ==
    \E b \in Bundles \ {t} :
        Marker(b) \in DOMAIN l /\ t \in SeqToSet(Includes(b))

\* C11: when the bundle of an iteration of remove_bundles is included by
\* another installed bundle and the manifests load, the iteration leaves
\* SWUPD_REQUIRED_BUNDLE_ERROR in ret and counts the bundle as bad; whatever
\* the environment does, the iteration unlinks no file and keeps the tracking
\* files as they were.
C11_RequiredBundleIsKept ==
    /\ (pc = "rm_loop" /\ idx <= Len(args)
            /\ IncludedByInstalled(args[idx], live)) =>
          /\ \A failed \in UnlinkFailures(args[idx], "ok") :
                LET r == remove_bundle(args[idx], live, tracked, "ok", failed)
                IN  r.ret = SWUPD_REQUIRED_BUNDLE_ERROR /\ r.bad = 1
          /\ \A env \in RemoveEnv :
                LET r == remove_bundle(args[idx], live, tracked, env, {})
                IN  r.live = live /\ r.tracked = tracked
    /\ (pc \in {"rm_loop", "rm_done"} /\ idx > 1
            /\ IncludedByInstalled(args[idx - 1], before.live)) =>
          /\ ret # SWUPD_OK
          /\ live = before.live
          /\ tracked = before.tracked

\* remove_bundles(["b1"]) has returned on a system where b3, which includes
\* b1, is installed: b1 is refused, its files and its tracking file are there
C11_Witness ==
    /\ pc = "rm_done"
    /\ args = <<"b1">>
    /\ Marker("b3") \in DOMAIN live0
    /\ returned = SWUPD_REQUIRED_BUNDLE_ERROR
    /\ "b1" \in tracked
    /\ Marker("b1") \in DOMAIN live
    /\ "/shared" \in DOMAIN live

\* the valid names of the command line that were not installed before
ValidNew == {b \in SeqToSet(args) \cap SeqToSet(MoMBundles) : b \notin Installed0}

\* install_bundles was entered and has returned
InstallReturned == pc = "ib_done" /\ summary # <<>>

\* C12: install_bundles given only names that are not in the MoM returns
\* SWUPD_INVALID_BUNDLE and installs nothing.  Given valid names that are not
\* installed together with invalid ones, every manifest loading and no step
\* of the installation failing (the post-update scripts were run), it has
\* installed every valid bundle, counted and tracked each of them, and
\* returns SWUPD_INVALID_BUNDLE.
C12_InvalidNamesAreSkipped ==
    /\ (InstallReturned /\ SeqToSet(args) \cap SeqToSet(MoMBundles) = {}) =>
          /\ returned = SWUPD_INVALID_BUNDLE
          /\ live = live0
          /\ updates = <<>>
          /\ staged_recs = {}
          /\ bundles_installed = 0
    /\ (InstallReturned /\ ValidNew # {} /\ BadName \in SeqToSet(args)
            /\ ~load_failed /\ scripts_calls = 1) =>
          /\ returned = SWUPD_INVALID_BUNDLE
          /\ ValidNew \subseteq ToInstall
          /\ bundles_installed = Cardinality(ValidNew)
          /\ ValidNew \subseteq tracked
          /\ HoldsInstalled(live0, Installed0) =>
                 HoldsInstalled(live, AllBundles)

\* bundle-add of b2 and of a name the MoM does not hold has returned
\* SWUPD_INVALID_BUNDLE, and the file of b2 is in the tree
C12_Witness ==
    /\ InstallReturned
    /\ SeqToSet(args) = {"b2", BadName}
    /\ "b2" \notin Installed0
    /\ returned = SWUPD_INVALID_BUNDLE
    /\ "/opt/only2" \in renamed_recs
    /\ live["/opt/only2"] = Entry("F", "h_only2")
    /\ Marker("b2") \in DOMAIN live

\* install_bundles has left the check of the disk space with an error
DiskSpaceAbort == pc \in {"ib_out", "ib_done"} /\ ret = SWUPD_DISK_SPACE_ERROR

\* C13: install_bundles leaves SWUPD_DISK_SPACE_ERROR in ret only when
\* skip_diskspace_check is false, and then before anything was downloaded,
\* staged or renamed: state_dir/staged holds no blob that was fetched, no
\* <final>.update exists and the live tree is as it was; the code is what
\* install_bundles returns.  With skip_diskspace_check true the code is never
\* SWUPD_DISK_SPACE_ERROR.
C13_DiskSpaceCheckedFirst ==
    /\ DiskSpaceAbort =>
          /\ ~skip_diskspace_check
          /\ \A h \in DOMAIN blobs : blobs[h] # h
          /\ staged_recs = {} /\ renamed_recs = {}
          /\ updates = <<>>
          /\ live = live0
          /\ sync_calls = 0 /\ scripts_calls = 0
          /\ pc = "ib_done" => returned = SWUPD_DISK_SPACE_ERROR
    /\ skip_diskspace_check =>
          /\ ret # SWUPD_DISK_SPACE_ERROR
          /\ returned # SWUPD_DISK_SPACE_ERROR

\* bundle-add of b2 has returned SWUPD_DISK_SPACE_ERROR with the files of b2
\* on the list of the files to install
C13_Witness ==
    /\ pc = "ib_done"
    /\ args = <<"b2">>
    /\ returned = SWUPD_DISK_SPACE_ERROR
    /\ \E i \in DOMAIN to_install_files :
          to_install_files[i].filename = "/opt/only2"
    /\ "/opt/only2" \notin DOMAIN live

\* install_bundles is running or has returned
Installing ==
    pc \in {"ib_subscribe", "ib_load", "ib_diskspace", "ib_download",
            "ib_verify", "ib_stage", "ib_rename", "ib_sync", "ib_scripts",
            "ib_out", "ib_done"}

\* C14: while bundle-add runs and after it returned, a requested bundle that
\* was not installed before has a tracking file only when the stage pass, the
\* rename pass and the post-update scripts of the run have completed; when
\* install_bundles returns an error, no bundle whose marker file is not in
\* the tree has a tracking file.
C14_TrackedLast ==
    /\ Installing =>
          \A b \in ValidNew : b \in tracked => scripts_calls = 1
    /\ (InstallReturned /\ returned # SWUPD_OK) =>
          \A b \in ValidNew : b \in tracked => Marker(b) \in DOMAIN live

\* remove_bundles came to its loop and has returned
RemoveReturned == pc = "rm_done" /\ idx >= 1

\* the iterations of the loop that left an error in ret
FailedIters == {i \in DOMAIN iter_rets : iter_rets[i] # SWUPD_OK}

Min(S) == CHOOSE x \in S : \A y \in S : x <= y
Max(S) == CHOOSE x \in S : \A y \in S : x >= y

\* C15 as stated: every bundle of the command line is processed, and
\* remove_bundles returns the code of the first bundle that failed.
C15_Original ==
    RemoveReturned =>
        /\ Len(iter_rets) = Len(args) /\ total = Len(args)
        /\ FailedIters # {} => returned = iter_rets[Min(FailedIters)]

\* C15 as amended: every bundle of the command line is processed, whatever
\* happened to the ones before it, and remove_bundles returns the code of the
\* last bundle that failed, SWUPD_OK when none did; bad counts the bundles
\* that failed.
C15_ReturnsLastFailure ==
    RemoveReturned =>
        /\ Len(iter_rets) = Len(args) /\ total = Len(args)
        /\ bad = Cardinality(FailedIters)
        /\ returned = IF FailedIters = {} THEN SWUPD_OK
                      ELSE iter_rets[Max(FailedIters)]

\* remove_bundles(["os-core", "b2"]) has returned on a system without b2:
\* the first bundle failed with SWUPD_REQUIRED_BUNDLE_ERROR, the second with
\* SWUPD_BUNDLE_NOT_TRACKED, which is the code returned
C15_Witness ==
    /\ RemoveReturned
    /\ args = <<"os-core", "b2">>
    /\ iter_rets = <<SWUPD_REQUIRED_BUNDLE_ERROR, SWUPD_BUNDLE_NOT_TRACKED>>
    /\ returned = SWUPD_BUNDLE_NOT_TRACKED

\* the policy errors of a bundle name b over the tree l: os-core, a name the
\* MoM does not hold, a bundle another installed bundle includes
PolicyError(b, l) ==
    \/ b = "os-core"
    \/ ~search_bundle_in_manifest(b)
    \/ IncludedByInstalled(b, l)

\* C16 as stated: a command that names a bundle with a policy error changes
\* neither the live tree nor the tracking files, wherever the bundle stands
\* on the command line.
C16_Original ==
    /\ (RemoveReturned /\ \E i \in DOMAIN args : PolicyError(args[i], live0)) =>
          live = live0 /\ tracked = tracked0
    /\ (InstallReturned /\ \E i \in DOMAIN args : ~search_bundle_in_manifest(args[i])) =>
          live = live0 /\ tracked = tracked0 /\ updates = <<>>

\* C16 as amended: a policy error concerns the one bundle it is found on.  The
\* iteration of remove_bundles for such a bundle leaves an error in ret and
\* changes neither the live tree nor the tracking files, the other bundles
\* of the command line are processed, and remove_bundles returns an error.
\* install_bundles skips a name the MoM does not hold: the name is not
\* subscribed, and unless its marker file was in the tree it gets no
\* tracking file; no marker file is made for it.
C16_PolicyErrorSkipsBundle ==
    /\ (pc \in {"rm_loop", "rm_done"} /\ idx > 1
            /\ PolicyError(args[idx - 1], before.live)) =>
          /\ ret # SWUPD_OK
          /\ live = before.live
          /\ tracked = before.tracked
    /\ (RemoveReturned /\ FailedIters # {}) =>
          /\ returned # SWUPD_OK
          /\ Len(iter_rets) = Len(args)
    /\ (Installing /\ pc # "ib_subscribe"
            /\ \E i \in DOMAIN args : ~search_bundle_in_manifest(args[i])) =>
          \A b \in SeqToSet(args) :
              ~search_bundle_in_manifest(b) =>
                  /\ b \notin SeqToSet(subs)
                  /\ Marker(b) \notin DOMAIN live0 =>
                        b \notin tracked /\ Marker(b) \notin DOMAIN live

\* remove_bundles(["b2", "os-core"]) has returned an error for os-core, and
\* b2 was removed
C16_Witness ==
    /\ RemoveReturned
    /\ args = <<"b2", "os-core">>
    /\ returned = SWUPD_REQUIRED_BUNDLE_ERROR
    /\ Marker("b2") \in DOMAIN live0
    /\ Marker("b2") \notin DOMAIN live
    /\ "b2" \in tracked0 /\ "b2" \notin tracked

\* bundle-add X X for a bundle X that was not installed has returned, and no
\* step of the installation failed
AddedTwice ==
    /\ InstallReturned
    /\ Len(args) = 2 /\ args[1] = args[2]
    /\ args[1] \in ValidNew
    /\ ~load_failed
    /\ scripts_calls = 1

\* C17: bundle-add X X for a bundle X that is not installed ends as
\* bundle-add X does: it returns SWUPD_OK, X is installed and tracked, and the
\* totals it prints report one bundle installed and none failed.
C17_TwiceIsOnce ==
    AddedTwice =>
        /\ returned = SWUPD_OK
        /\ Marker(args[1]) \in DOMAIN live
        /\ args[1] \in tracked
        /\ summary[1].installed = 1
        /\ summary[1].failed = 0

\* bundle-add X has returned SWUPD_OK for a bundle X that was not installed,
\* and bundle-remove X, run next, has returned SWUPD_OK
AddedThenRemoved ==
    /\ pc = "rm_done" /\ idx > 1
    /\ summary # <<>>
    /\ returned = SWUPD_OK
    /\ Marker(args[1]) \notin DOMAIN live_init

InstalledInit == {b \in Bundles : Marker(b) \in DOMAIN live_init}

\* the paths the manifest of bundle X lists and no manifest of the bundles S
\* does
OwnPaths(X, S) == Filenames(ManifestFiles(X)) \ Filenames(files_from_bundles(S))

C19_Original ==
    (CleanDone /\ ~opt_dry_run) => updates = <<>>

\* C19 as amended: clean leaves the live tree alone; every <final>.update
\* the interrupted installation left is still there, with its content, while
\* clean runs and when it has completed, and no final name has changed.
C19_CleanKeepsUpdateFiles ==
    /\ updates = Interrupted("b2", {"os-core"}).updates
    /\ live = live0

\* clean has completed without --dry-run and has removed files of the state
\* directory; /opt/only2.update is still in the live tree
C19_Witness ==
    /\ CleanDone
    /\ ~opt_dry_run
    /\ cret = SWUPD_OK
    /\ files_removed > 0
    /\ "/opt/only2" \in DOMAIN updates
    /\ "/opt/only2" \notin DOMAIN live

\* the first or the second loop of install_bundles is running or is over
PastVerify ==
    pc \in {"ib_stage", "ib_rename", "ib_sync", "ib_scripts"}
    \/ (pc \in {"ib_out", "ib_done"} /\ staged_recs # {})

\* C20: once the loop that checks the hashes is over, state_dir/staged holds
\* no blob of a file to install whose content is not the hash of its name;
\* every <final>.update, every directory the first loop put in place and
\* every file the second loop renamed has the content that hashes to the
\* hash of its file record.
C20_StagedFromVerifiedBlobs ==
    PastVerify =>
        /\ \A i \in DOMAIN to_install_files :
              LET h == to_install_files[i].hash
              IN  h \in DOMAIN blobs => blobs[h] = h
        /\ \A p \in DOMAIN updates : updates[p] = FileAt(p).hash
        /\ \A p \in staged_recs :
              FileAt(p).type = "D" => live[p] = Entry("D", FileAt(p).hash)
        /\ \A p \in renamed_recs :
              live[p] = Entry(FileAt(p).type, FileAt(p).hash)

\* b2 and b3 are being installed and state_dir/staged held a corrupt blob
\* for /opt/only2: the blob was removed, /only3 is staged from its own blob
C20_Witness ==
    /\ pc = "ib_stage"
    /\ "/opt/only2" \in ToStage
    /\ "h_only2" \notin DOMAIN blobs
    /\ "/only3" \in staged_recs
    /\ "/only3" \in DOMAIN updates
    /\ updates["/only3"] = FileAt("/only3").hash

\* C21: when the first loop of install_bundles begins, state_dir/staged holds,
\* for every record the loop will stage, a blob under the record's hash whose
\* content has that hash: a blob the hash check removed was fetched again,
\* and so was a blob that was absent.
C21_FetchedAgainBeforeStaging ==
    (pc = "ib_stage" /\ idx = 1) =>
        \A i \in DOMAIN to_install_files :
            LET file == to_install_files[i]
            IN  ~SkipFile(file) =>
                    file.hash \in DOMAIN blobs /\ blobs[file.hash] = file.hash

\* the codes install_bundles leaves in ret when a step before the end of the
\* second loop fails
StepFailures ==
    {SWUPD_COULDNT_LOAD_MANIFEST, SWUPD_RECURSE_MANIFEST,
     SWUPD_DISK_SPACE_ERROR, SWUPD_COULDNT_DOWNLOAD_FILE,
     SWUPD_COULDNT_REMOVE_FILE, SWUPD_COULDNT_STAGE_FILE}

\* C22: sync() runs at most once in a run of install_bundles, and when it
\* has run every record was staged and renamed; the post-update scripts run
\* at most once and only after sync(); when a step before the end of the
\* second loop failed, neither has run.
C22_SyncOnceAfterRename ==
    /\ sync_calls <= 1
    /\ scripts_calls <= sync_calls
    /\ sync_calls = 1 =>
          /\ staged_recs = ToStage
          /\ renamed_recs = ToStage
          /\ pc \notin {"ib_stage", "ib_rename"}
    /\ (pc \in {"ib_out", "ib_done"} /\ ret \in StepFailures) =>
          sync_calls = 0 /\ scripts_calls = 0
    /\ (pc \in {"ib_out", "ib_done"} /\ sync_calls = 1) => scripts_calls = 1

\* install_bundles has returned after renaming more than one file; sync()
\* and the scripts have run once
C22_Witness ==
    /\ pc = "ib_done"
    /\ Cardinality(renamed_recs) > 1
    /\ sync_calls = 1
    /\ scripts_calls = 1

\* the command line named one bundle that was not installed, and the run
\* went through every step up to the post-update scripts
FreshAdded ==
    /\ InstallReturned
    /\ Len(args) = 1
    /\ args[1] \in Bundles
    /\ Marker(args[1]) \notin DOMAIN live_init
    /\ scripts_calls = 1

\* C23: a successful bundle-add of one bundle that was not installed and
\* has at most 10 files returns SWUPD_OK, every file of the bundle that is
\* neither deleted nor ignored is present under the target root, and the
\* output is, in this order and with nothing else: "Loading required
\* manifests...", "No packs need to be downloaded", the download of the
\* fullfiles, "Installing bundle(s) files...", the post-update scripts,
\* "Successfully installed 1 bundle".
C23_FreshAddOutput ==
    FreshAdded =>
        /\ Len(to_install_files) <= 10
        /\ returned = SWUPD_OK
        /\ \A r \in ManifestFiles(args[1]) :
              ~SkipFile(r) => r.filename \in DOMAIN live
        /\ progress = <<MsgLoading, MsgNoPacks, StepFullfiles, MsgInstalling,
                        StepScripts, MsgInstalledOne>>

\* bundle-add b2 on a system without b2 returned: /opt/only2 is in place
C23_Witness ==
    /\ FreshAdded
    /\ args = <<"b2">>
    /\ "/opt/only2" \in DOMAIN live
    /\ Len(progress) = 6

\* bundle-add went through every step and reported no bundle as failed;
\* the command line named bundle A, which includes bundle B, and neither
\* was installed before
AddedWithInclude(A, B) ==
    /\ InstallReturned
    /\ scripts_calls = 1
    /\ summary[1].failed = 0
    /\ A \in SeqToSet(args) \cap Bundles
    /\ B \in SeqToSet(Includes(A))
    /\ Marker(A) \notin DOMAIN live_init
    /\ Marker(B) \notin DOMAIN live_init

\* C24 as stated: after a successful bundle-add of A, which includes B,
\* neither installed before, both are installed and state_dir/bundles holds
\* a tracking file for A and one for B.
C24_Original ==
    \A A, B \in Bundles :
        AddedWithInclude(A, B) =>
            /\ is_installed_bundle(A) /\ is_installed_bundle(B)
            /\ {A, B} \subseteq tracked

\* C24: after a successful bundle-add of A, which includes B, neither
\* installed before, both are installed and state_dir/bundles holds a
\* tracking file for A; it holds one for B exactly when B was named on the
\* command line too, or was tracked before, or state_dir/bundles was empty
\* when the out: loop tracked its first bundle, so that track_installed
\* copied every entry of the system's bundles directory.
C24_IncludeInstalledNotTracked ==
    \A A, B \in Bundles :
        AddedWithInclude(A, B) =>
            /\ is_installed_bundle(A) /\ is_installed_bundle(B)
            /\ A \in tracked
            /\ B \in tracked <=>
                  \/ B \in SeqToSet(args)
                  \/ B \in tracked0
                  \/ ~is_populated_dir(tracked0) /\ already_installed = 0

\* bundle-add b3 returned on a system that tracked os-core: b1 is
\* installed, and only os-core and b3 are tracked
C24_Witness ==
    /\ AddedWithInclude("b3", "b1")
    /\ args = <<"b3">>
    /\ is_installed_bundle("b1")
    /\ tracked = {"os-core", "b3"}

(***************************************************************************)
(* The two traversals of the includes, each called alone on a MoM and on   *)
(* manifests that the installer's own do not cover: includes that form a   *)
(* cycle, an include that is not installed and comes before one whose      *)
(* manifest does not load.                                                 *)
(***************************************************************************)
TravBundles == {"A", "B", "C"}

\* the longest list of includes of a manifest
MaxIncludes == 2

RECURSIVE InjectiveSeqs(_, _)
InjectiveSeqs(S, n) ==
    IF n = 0 THEN {<<>>}
    ELSE LET shorter == InjectiveSeqs(S, n - 1)
         IN  shorter \cup
             UNION {{Append(q, x) : x \in S \ SeqToSet(q)} : q \in shorter}

IncludeLists == InjectiveSeqs(TravBundles, MaxIncludes)

\* the lists of bundles a call is given: "A" is asked for first
RequestLists ==
    {q \in InjectiveSeqs(TravBundles, MaxArgs) : q # <<>> /\ q[1] = "A"}

\* mom->submanifests: the manifests of the bundles of the MoM, in its order
TravSubmanifests(sys) ==
    LET order == <<"A", "B", "C", "D">>
        RECURSIVE pick(_)
        pick(q) == IF q = <<>> THEN <<>>
                   ELSE (IF Head(q) \in sys.mom
                         THEN <<[component |-> Head(q),
                                 includes |-> sys.includes[Head(q)]]>>
                         ELSE <<>>) \o pick(Tail(q))
    IN  pick(order)

\* the inputs of one call: the MoM has every bundle, or "C" is not in it; at
\* most one bundle is installed and at most one manifest does not load
TravInputs ==
    /\ \E mom \in {TravBundles, TravBundles \ {"C"}} :
       \E incl \in [mom -> IncludeLists] :
       \E inst \in {{}} \cup {{b} : b \in mom \ {"C"}} :
       \E failing \in {{}} \cup {{b} : b \in mom \ {"A"}} :
       \E bundles \in RequestLists, find_all \in BOOLEAN :
          trav = <<[sys |-> [mom |-> mom, includes |-> incl,
                             installed |-> inst, failing |-> failing],
                    bundles |-> bundles, find_all |-> find_all,
                    subs |-> <<>>]>>
    /\ trav_out = <<>>

InitTrav == TravInputs /\ NoBundleCommand /\ CleanIdle /\ DownloadIdle

\* add_subscriptions(bundles, &subs, mom, find_all, 0)
TravAddSubscriptions ==
    /\ trav # <<>> /\ trav_out = <<>>
    /\ trav_out' = <<[fn |-> "add_subscriptions",
                      res |-> add_subscriptions_in(trav[1].bundles,
                                                   SubsStart(trav[1].subs),
                                                   trav[1].find_all, 0,
                                                   trav[1].sys)]>>
    /\ UNCHANGED trav
    /\ UNCHANGED <<live, updates, tracked, blobs, pc, args, idx, ret, ret_code,
                   bad, total, returned, subs, to_install_bundles,
                   to_install_files, invalid_bundle_provided,
                   already_installed, bundles_installed, live0, tracked0,
                   before, unlink_failed, staged_recs, renamed_recs,
                   sync_calls, scripts_calls, skip_diskspace_check, summary,
                   iter_rets, load_failed, progress, live_init>>
    /\ UNCHANGED cvars
    /\ UNCHANGED dvars

\* required_by(&reqd_by, bundle_name, mom, 0) for the first bundle of the
\* list, when the MoM has it
TravRequiredBy ==
    /\ trav # <<>> /\ trav_out = <<>>
    /\ trav_out' = <<[fn |-> "required_by",
                      res |-> required_by_in(trav[1].bundles[1],
                                             TravSubmanifests(trav[1].sys),
                                             0)]>>
    /\ UNCHANGED trav
    /\ UNCHANGED <<live, updates, tracked, blobs, pc, args, idx, ret, ret_code,
                   bad, total, returned, subs, to_install_bundles,
                   to_install_files, invalid_bundle_provided,
                   already_installed, bundles_installed, live0, tracked0,
                   before, unlink_failed, staged_recs, renamed_recs,
                   sync_calls, scripts_calls, skip_diskspace_check, summary,
                   iter_rets, load_failed, progress, live_init>>
    /\ UNCHANGED cvars
    /\ UNCHANGED dvars

TravNext == TravAddSubscriptions \/ TravRequiredBy

SpecTrav == InitTrav /\ [][TravNext]_vars

\* the lists of bundles a call is given, a name more than once too; "A" is
\* asked for first
WalkRequests ==
    {q \in UNION {[1..n -> TravBundles] : n \in 1..MaxArgs} : q[1] = "A"}

\* the inputs of one call on a MoM whose manifests all load: any includes
\* among three bundles, a fourth bundle "D" that includes "C" or nothing, any
\* list of bundles, a list of subscriptions that is empty or is what earlier
\* calls left
WalkInputs ==
    /\ \E incl \in [TravBundles -> IncludeLists] :
       \E last \in {<<>>, <<"C">>} :
       \E c \in {[find_all |-> TRUE, installed |-> {}],
                 [find_all |-> FALSE, installed |-> {"B"}]} :
       \E bundles \in WalkRequests :
       \E subs0 \in {<<>>, <<"C", "A">>} :
          trav = <<[sys |-> [mom |-> TravBundles \cup {"D"},
                             includes |-> incl @@ ("D" :> last),
                             installed |-> c.installed, failing |-> {}],
                    bundles |-> bundles, find_all |-> c.find_all,
                    subs |-> subs0]>>
    /\ trav_out = <<>>

InitWalk == WalkInputs /\ NoBundleCommand /\ CleanIdle /\ DownloadIdle

SpecWalk == InitWalk /\ [][TravNext]_vars

(***************************************************************************)
(* curl.c: retry_download_loop and swupd_curl_get_file_full.               *)
(***************************************************************************)
DOWNLOAD_STATUS_COMPLETED == "DOWNLOAD_STATUS_COMPLETED"
DOWNLOAD_STATUS_PARTIAL_FILE == "DOWNLOAD_STATUS_PARTIAL_FILE"
DOWNLOAD_STATUS_FORBIDDEN == "DOWNLOAD_STATUS_FORBIDDEN"
DOWNLOAD_STATUS_NOT_FOUND == "DOWNLOAD_STATUS_NOT_FOUND"
DOWNLOAD_STATUS_ERROR == "DOWNLOAD_STATUS_ERROR"
DOWNLOAD_STATUS_WRITE_ERROR == "DOWNLOAD_STATUS_WRITE_ERROR"
DOWNLOAD_STATUS_TIMEOUT == "DOWNLOAD_STATUS_TIMEOUT"
DOWNLOAD_STATUS_RANGE_ERROR == "DOWNLOAD_STATUS_RANGE_ERROR"

\* what process_curl_error_codes returns
DownloadStatuses ==
    {DOWNLOAD_STATUS_COMPLETED, DOWNLOAD_STATUS_PARTIAL_FILE,
     DOWNLOAD_STATUS_FORBIDDEN, DOWNLOAD_STATUS_NOT_FOUND,
     DOWNLOAD_STATUS_ERROR, DOWNLOAD_STATUS_WRITE_ERROR,
     DOWNLOAD_STATUS_TIMEOUT, DOWNLOAD_STATUS_RANGE_ERROR}

DONT_RETRY == "DONT_RETRY"
RETRY_NOW == "RETRY_NOW"
RETRY_WITH_DELAY == "RETRY_WITH_DELAY"

\* the value of DOWNLOAD_STATUS_COMPLETED as an int, and the errno values
STATUS_COMPLETED_VALUE == 0
EIO == 5
ECOMM == 70
DELAY_MULTIPLIER == 2
MAX_DELAY == 60

\* the largest max_retries tried
MaxRetries == 2

\* the values of retry_delay tried: none, one that doubles below MAX_DELAY,
\* one that reaches it and one above it
RetryDelays == {0, 1, 40, 100}

\* a variant that retries a download that was forbidden: C28 has to notice
\* it
determine_strategy_m(st, local) ==
    IF local THEN DONT_RETRY
    ELSE CASE st \in {DOWNLOAD_STATUS_NOT_FOUND, DOWNLOAD_STATUS_WRITE_ERROR}
                -> DONT_RETRY
           [] st \in {DOWNLOAD_STATUS_RANGE_ERROR, DOWNLOAD_STATUS_PARTIAL_FILE}
                -> RETRY_NOW
           [] st \in {DOWNLOAD_STATUS_ERROR, DOWNLOAD_STATUS_TIMEOUT}
                -> RETRY_WITH_DELAY
           [] OTHER -> RETRY_NOW

\* determine_strategy(status); local is content_url_is_local
determine_strategy(st, local) ==
    IF local THEN DONT_RETRY
    ELSE CASE st \in {DOWNLOAD_STATUS_FORBIDDEN, DOWNLOAD_STATUS_NOT_FOUND,
                      DOWNLOAD_STATUS_WRITE_ERROR}
                -> DONT_RETRY
           [] st \in {DOWNLOAD_STATUS_RANGE_ERROR, DOWNLOAD_STATUS_PARTIAL_FILE}
                -> RETRY_NOW
           [] st \in {DOWNLOAD_STATUS_ERROR, DOWNLOAD_STATUS_TIMEOUT}
                -> RETRY_WITH_DELAY
           [] OTHER -> RETRY_NOW

\* a variant in which swupd_curl_get_file passes resume_ok: C32 has to
\* notice it
Entries_m ==
    {[name |-> "swupd_curl_get_file", resume_ok |-> TRUE, in_memory |-> FALSE],
     [name |-> "swupd_curl_get_file_memory", resume_ok |-> FALSE,
      in_memory |-> TRUE],
     [name |-> "retry_download_loop", resume_ok |-> TRUE, in_memory |-> FALSE]}

\* the functions a download is asked of, with the resume_ok and the
\* in_memory_file each passes to retry_download_loop; the last stands for
\* retry_download_loop called with resume_ok, which no function here does
Entries ==
    {[name |-> "swupd_curl_get_file", resume_ok |-> FALSE, in_memory |-> FALSE],
     [name |-> "swupd_curl_get_file_memory", resume_ok |-> FALSE,
      in_memory |-> TRUE],
     [name |-> "retry_download_loop", resume_ok |-> TRUE, in_memory |-> FALSE]}

\* the most calls of retry_download_loop in one process
MaxCalls == 2

\* the first call of a process: the globals and the arguments; the static
\* resume_download_supported is still true
DownloadInputs ==
    /\ dpc = "enter"
    /\ curl \in BOOLEAN
    /\ max_retries \in 0..MaxRetries
    /\ retry_delay \in RetryDelays
    /\ content_url_is_local \in BOOLEAN
    /\ \E e \in Entries :
          /\ entry = e.name
          /\ resume_ok = e.resume_ok
          /\ in_memory_file = e.in_memory
          /\ on_disk \in (IF e.in_memory THEN {FALSE} ELSE BOOLEAN)
    /\ resume_download_supported = TRUE
    /\ current_retry = 0
    /\ sleep_time = 0
    /\ status = "none"
    /\ dret = 0
    /\ outcomes = <<>>
    /\ sleeps = <<>>
    /\ transfers = 0
    /\ calls = 1
    /\ last_xfer = [had_file |-> FALSE, supported |-> FALSE, resumed |-> FALSE]
    /\ range_error_seen = FALSE
    /\ resumed_after_range_error = FALSE
    /\ CurlIdle
    /\ CodesIdle

InitDownload == DownloadInputs /\ BundleIdle /\ CleanIdle

\* retry_download_loop up to the loop: the locals, and the test of curl
LoopEnter ==
    /\ dpc = "enter"
    /\ current_retry' = 0
    /\ sleep_time' = retry_delay
    /\ IF ~curl
       THEN dret' = -1 /\ dpc' = "done"
       ELSE dret' = dret /\ dpc' = "get_file"
    /\ UNCHANGED <<curl, max_retries, retry_delay, content_url_is_local,
                   resume_ok, resume_download_supported, on_disk, status,
                   outcomes, sleeps, transfers>>
    /\ UNCHANGED <<entry, in_memory_file, calls, last_xfer, range_error_seen,
                   resumed_after_range_error>>
    /\ UNCHANGED <<ivars, pvars>>
    /\ UNCHANGED <<cvars, bvars>>

\* a variant that does not disable resume on a range error: C33 has to
\* notice it
GetFileFull_r ==
    /\ dpc = "get_file"
    /\ LET resumed == /\ ~in_memory_file
                      /\ resume_ok /\ resume_download_supported /\ on_disk
       IN  \E st \in DownloadStatuses :
              /\ st = DOWNLOAD_STATUS_RANGE_ERROR => resumed
              /\ transfers' = transfers + 1
              /\ last_xfer' = [had_file |-> on_disk,
                               supported |-> resume_download_supported,
                               resumed |-> resumed]
              /\ range_error_seen' =
                    (range_error_seen \/ st = DOWNLOAD_STATUS_RANGE_ERROR)
              /\ resumed_after_range_error' =
                    (resumed_after_range_error \/ (range_error_seen /\ resumed))
              /\ IF st = DOWNLOAD_STATUS_RANGE_ERROR
                 THEN /\ resume_download_supported' = resume_download_supported
                      /\ UNCHANGED <<dpc, status, outcomes, on_disk>>
                 ELSE /\ status' = st
                      /\ outcomes' = Append(outcomes, st)
                      /\ on_disk' = IF in_memory_file THEN on_disk
                                    ELSE (st = DOWNLOAD_STATUS_COMPLETED
                                          \/ resume_ok)
                      /\ dpc' = "retry"
                      /\ UNCHANGED resume_download_supported
    /\ UNCHANGED <<curl, max_retries, retry_delay, content_url_is_local,
                   resume_ok, current_retry, sleep_time, dret, sleeps>>
    /\ UNCHANGED <<entry, in_memory_file, calls>>
    /\ UNCHANGED <<ivars, pvars>>
    /\ UNCHANGED <<cvars, bvars>>

\* swupd_curl_get_file_full, from restart_download to its return or to the
\* goto: a download to a file resumes when resume_ok, resume is still
\* supported and a file is there, and else opens the file anew; libcurl
\* gives CURLE_RANGE_ERROR only for a transfer that resumes; on that status
\* resume is disabled and the transfer made again; on a failure the file is
\* unlinked unless resume_ok
GetFileFull ==
    /\ dpc = "get_file"
    /\ LET resumed == /\ ~in_memory_file
                      /\ resume_ok /\ resume_download_supported /\ on_disk
       IN  \E st \in DownloadStatuses :
              /\ st = DOWNLOAD_STATUS_RANGE_ERROR => resumed
              /\ transfers' = transfers + 1
              /\ last_xfer' = [had_file |-> on_disk,
                               supported |-> resume_download_supported,
                               resumed |-> resumed]
              /\ range_error_seen' =
                    (range_error_seen \/ st = DOWNLOAD_STATUS_RANGE_ERROR)
              /\ resumed_after_range_error' =
                    (resumed_after_range_error \/ (range_error_seen /\ resumed))
              /\ IF st = DOWNLOAD_STATUS_RANGE_ERROR
                 THEN /\ resume_download_supported' = FALSE
                      /\ UNCHANGED <<dpc, status, outcomes, on_disk>>
                 ELSE /\ status' = st
                      /\ outcomes' = Append(outcomes, st)
                      /\ on_disk' = IF in_memory_file THEN on_disk
                                    ELSE (st = DOWNLOAD_STATUS_COMPLETED
                                          \/ resume_ok)
                      /\ dpc' = "retry"
                      /\ UNCHANGED resume_download_supported
    /\ UNCHANGED <<curl, max_retries, retry_delay, content_url_is_local,
                   resume_ok, current_retry, sleep_time, dret, sleeps>>
    /\ UNCHANGED <<entry, in_memory_file, calls>>
    /\ UNCHANGED <<ivars, pvars>>
    /\ UNCHANGED <<cvars, bvars>>

\* a variant that retries once more than max_retries: C29 has to notice it
RetryDecision_m ==
    /\ dpc = "retry"
    /\ IF status = DOWNLOAD_STATUS_COMPLETED
       THEN /\ dret' = STATUS_COMPLETED_VALUE
            /\ dpc' = "done"
            /\ UNCHANGED <<current_retry, sleep_time, sleeps>>
       ELSE /\ current_retry' = current_retry + 1
            /\ LET strategy == determine_strategy(status, content_url_is_local)
                   now == IF strategy = RETRY_NOW THEN 0 ELSE sleep_time
               IN  IF strategy = DONT_RETRY
                   THEN /\ dret' = -EIO
                        /\ dpc' = "done"
                        /\ UNCHANGED <<sleep_time, sleeps>>
                   ELSE IF max_retries # 0 /\ current_retry' <= max_retries + 1
                   THEN /\ sleeps' = Append(sleeps, now)
                        /\ sleep_time' = IF now * DELAY_MULTIPLIER > MAX_DELAY
                                         THEN MAX_DELAY
                                         ELSE now * DELAY_MULTIPLIER
                        /\ dpc' = "get_file"
                        /\ UNCHANGED dret
                   ELSE /\ sleep_time' = now
                        /\ dret' = -ECOMM
                        /\ dpc' = "done"
                        /\ UNCHANGED sleeps
    /\ UNCHANGED <<curl, max_retries, retry_delay, content_url_is_local,
                   resume_ok, resume_download_supported, on_disk, status,
                   outcomes, transfers>>
    /\ UNCHANGED <<entry, in_memory_file, calls, last_xfer, range_error_seen,
                   resumed_after_range_error>>
    /\ UNCHANGED <<ivars, pvars>>
    /\ UNCHANGED <<cvars, bvars>>

\* the body of the loop after swupd_curl_get_file_full returned: success
\* ends the loop; else the strategy decides between -EIO, a retry after
\* sleep(sleep_time), and -ECOMM
RetryDecision ==
    /\ dpc = "retry"
    /\ IF status = DOWNLOAD_STATUS_COMPLETED
       THEN /\ dret' = STATUS_COMPLETED_VALUE
            /\ dpc' = "done"
            /\ UNCHANGED <<current_retry, sleep_time, sleeps>>
       ELSE /\ current_retry' = current_retry + 1
            /\ LET strategy == determine_strategy(status, content_url_is_local)
                   now == IF strategy = RETRY_NOW THEN 0 ELSE sleep_time
               IN  IF strategy = DONT_RETRY
                   THEN /\ dret' = -EIO
                        /\ dpc' = "done"
                        /\ UNCHANGED <<sleep_time, sleeps>>
                   ELSE IF max_retries # 0 /\ current_retry' <= max_retries
                   THEN /\ sleeps' = Append(sleeps, now)
                        /\ sleep_time' = IF now * DELAY_MULTIPLIER > MAX_DELAY
                                         THEN MAX_DELAY
                                         ELSE now * DELAY_MULTIPLIER
                        /\ dpc' = "get_file"
                        /\ UNCHANGED dret
                   ELSE /\ sleep_time' = now
                        /\ dret' = -ECOMM
                        /\ dpc' = "done"
                        /\ UNCHANGED sleeps
    /\ UNCHANGED <<curl, max_retries, retry_delay, content_url_is_local,
                   resume_ok, resume_download_supported, on_disk, status,
                   outcomes, transfers>>
    /\ UNCHANGED <<entry, in_memory_file, calls, last_xfer, range_error_seen,
                   resumed_after_range_error>>
    /\ UNCHANGED <<ivars, pvars>>
    /\ UNCHANGED <<cvars, bvars>>

\* the process asks for another download, of another file: the globals, the
\* handle and the static stay as they are
DownloadAgain ==
    /\ dpc = "done"
    /\ calls < MaxCalls
    /\ calls' = calls + 1
    /\ dpc' = "enter"
    /\ \E e \in Entries :
          /\ entry' = e.name
          /\ resume_ok' = e.resume_ok
          /\ in_memory_file' = e.in_memory
          /\ on_disk' \in (IF e.in_memory THEN {FALSE} ELSE BOOLEAN)
    /\ current_retry' = 0
    /\ sleep_time' = 0
    /\ status' = "none"
    /\ dret' = 0
    /\ outcomes' = <<>>
    /\ sleeps' = <<>>
    /\ transfers' = 0
    /\ last_xfer' = [had_file |-> FALSE, supported |-> FALSE, resumed |-> FALSE]
    /\ UNCHANGED <<curl, max_retries, retry_delay, content_url_is_local,
                   resume_download_supported, range_error_seen,
                   resumed_after_range_error>>
    /\ UNCHANGED <<ivars, pvars>>
    /\ UNCHANGED <<cvars, bvars>>

DownloadNext == LoopEnter \/ GetFileFull \/ RetryDecision \/ DownloadAgain

SpecDownload == InitDownload /\ [][DownloadNext]_vars

\* a call that has begun goes on: no step of it waits for anything but the
\* transfer, which ends with a status
SpecDownloadLive == SpecDownload /\ WF_vars(DownloadNext)

\* add_subscriptions was called and returned
SubscriptionsAdded ==
    /\ trav_out # <<>>
    /\ trav_out[1].fn = "add_subscriptions"
    /\ ~trav_out[1].res.diverged

\* C25: when load_manifest fails for a bundle that add_subscriptions
\* reaches, at any depth of the recursion, the flags the top-level call
\* returns have add_sub_ERR.
C25_FetchFailureIsReported ==
    (SubscriptionsAdded /\ trav_out[1].res.failed) =>
        add_sub_ERR \in trav_out[1].res.ret

\* C26: the flags the top-level call of add_subscriptions returns have
\* add_sub_NEW exactly when the call appended a subscription to subs, at any
\* depth, a call that ends with a manifest that does not load included.
C26_NewIffAppended ==
    SubscriptionsAdded =>
        (add_sub_NEW \in trav_out[1].res.ret <=> trav_out[1].res.subs # <<>>)

\* C27: add_subscriptions and required_by return for every MoM and all
\* manifests, those whose includes form a cycle too.
C27_TraversalsReturn ==
    trav_out # <<>> => ~trav_out[1].res.diverged

NoRetryStatuses ==
    {DOWNLOAD_STATUS_FORBIDDEN, DOWNLOAD_STATUS_NOT_FOUND,
     DOWNLOAD_STATUS_WRITE_ERROR}

\* C28: a call of swupd_curl_get_file_full that ends with the status of
\* HTTP 403, of HTTP 404 or of a local write error is the last of its
\* retry_download_loop, whatever max_retries is: no sleep and no call
\* follow it, and the loop returns -EIO; when it is the first call it is
\* the only one.
C28_NoRetryOnPermanentFailure ==
    \A i \in DOMAIN outcomes :
        outcomes[i] \in NoRetryStatuses =>
            /\ i = Len(outcomes)
            /\ Len(sleeps) = i - 1
            /\ dpc \in {"retry", "done"}
            /\ dpc = "done" => dret = -EIO

\* the first transfer timed out and was made again, the second was
\* forbidden: the loop returned -EIO with retries left
C28_Witness ==
    /\ dpc = "done"
    /\ max_retries = MaxRetries
    /\ outcomes = <<DOWNLOAD_STATUS_TIMEOUT, DOWNLOAD_STATUS_FORBIDDEN>>
    /\ dret = -EIO

\* the calls of swupd_curl_get_file_full are at most max_retries + 1, and
\* the value returned after the last is 0 on success, -EIO when
\* determine_strategy says DONT_RETRY, and -ECOMM when max_retries + 1 calls
\* failed (one call when max_retries is 0)
RetriesBounded ==
    /\ Len(outcomes) <= max_retries + 1
    /\ current_retry <= max_retries + 1
    /\ ~curl => outcomes = <<>>
    /\ (dpc = "done" /\ outcomes # <<>>) =>
          LET last == outcomes[Len(outcomes)]
          IN  /\ status = last
              /\ \A i \in 1..(Len(outcomes) - 1) :
                    determine_strategy(outcomes[i], content_url_is_local)
                        \in {RETRY_NOW, RETRY_WITH_DELAY}
              /\ IF last = DOWNLOAD_STATUS_COMPLETED
                 THEN dret = 0
                 ELSE IF determine_strategy(last, content_url_is_local)
                         = DONT_RETRY
                 THEN dret = -EIO
                 ELSE dret = -ECOMM /\ Len(outcomes) = max_retries + 1

\* C29: whatever statuses the transfers end with, retry_download_loop
\* returns, after at most max_retries + 1 calls of
\* swupd_curl_get_file_full (one when max_retries is 0), with 0 on success,
\* -EIO on a failure that is not retried and -ECOMM when the retries are
\* used up.
C29_RetriesBoundedAndReturn == []RetriesBounded /\ <>(dpc = "done")

\* every transfer timed out: max_retries + 1 calls, then -ECOMM
C29_Witness ==
    /\ dpc = "done"
    /\ max_retries = MaxRetries
    /\ Len(outcomes) = MaxRetries + 1
    /\ \A i \in DOMAIN outcomes : outcomes[i] = DOWNLOAD_STATUS_TIMEOUT
    /\ dret = -ECOMM

\* C30: with retry_delay > 0, the sleep before a retry that follows
\* DOWNLOAD_STATUS_ERROR or DOWNLOAD_STATUS_TIMEOUT is not zero, whatever
\* the transfers before ended with.
C30_DelayBeforeRetry ==
    retry_delay > 0 =>
        \A i \in DOMAIN sleeps :
            outcomes[i] \in {DOWNLOAD_STATUS_ERROR, DOWNLOAD_STATUS_TIMEOUT}
                => sleeps[i] > 0

RECURSIVE Pow(_, _)
Pow(b, e) == IF e = 0 THEN 1 ELSE b * Pow(b, e - 1)

\* the retry after outcomes[i] is a delayed one
DelayedRetry(i) ==
    determine_strategy(outcomes[i], content_url_is_local) = RETRY_WITH_DELAY

\* how many delayed retries in a row end with the one after outcomes[i]
RECURSIVE DelayedInARow(_)
DelayedInARow(i) ==
    IF i = 0 \/ ~DelayedRetry(i) THEN 0 ELSE 1 + DelayedInARow(i - 1)

\* C31: no sleep of retry_download_loop before a retry is longer than
\* MAX_DELAY, and the k-th delayed retry in a row waits
\* min(retry_delay * DELAY_MULTIPLIER^(k-1), MAX_DELAY), for every
\* retry_delay >= 0 and all failures.
C31_BackoffCapped ==
    \A i \in DOMAIN sleeps :
        /\ sleeps[i] <= MAX_DELAY
        /\ DelayedRetry(i) =>
              LET d == retry_delay * Pow(DELAY_MULTIPLIER, DelayedInARow(i) - 1)
              IN  sleeps[i] = IF d > MAX_DELAY THEN MAX_DELAY ELSE d

\* C32 as stated: a transfer of swupd_curl_get_file that finds a file at the
\* destination, no range error having been reported before, resumes
C32_Original ==
    (/\ entry = "swupd_curl_get_file"
     /\ transfers > 0
     /\ last_xfer.had_file
     /\ last_xfer.supported) => last_xfer.resumed

\* C32: a transfer resumes exactly when retry_download_loop was called with
\* resume_ok, the download goes to a file, a file is at the destination and
\* resume is still supported; swupd_curl_get_file and
\* swupd_curl_get_file_memory pass resume_ok = false, so no transfer of
\* theirs resumes
C32_ResumeOnlyWhenAsked ==
    transfers > 0 =>
        /\ last_xfer.resumed <=> (/\ resume_ok
                                  /\ ~in_memory_file
                                  /\ last_xfer.had_file
                                  /\ last_xfer.supported)
        /\ entry \in {"swupd_curl_get_file", "swupd_curl_get_file_memory"}
              => ~last_xfer.resumed

C32_Witness ==
    /\ entry = "swupd_curl_get_file"
    /\ transfers > 0
    /\ last_xfer.had_file
    /\ last_xfer.supported
    /\ ~last_xfer.resumed

\* C33: once a transfer of the process has ended with a range error, resume
\* is disabled for good: the status is not returned but the transfer made
\* again without resuming, and no later transfer of any call resumes
C33_ResumeDisabledAfterRangeError ==
    /\ ~resumed_after_range_error
    /\ range_error_seen => ~resume_download_supported
    /\ \A i \in DOMAIN outcomes : outcomes[i] # DOWNLOAD_STATUS_RANGE_ERROR

C33_Witness ==
    /\ range_error_seen
    /\ calls = 2
    /\ resume_ok
    /\ transfers > 0
    /\ last_xfer.had_file
    /\ ~last_xfer.resumed

\* C40: when swupd_curl_get_file returns an error after a transfer, the
\* file the transfer wrote is still at the destination path
C40_PartialFileKept ==
    (/\ entry = "swupd_curl_get_file"
     /\ dpc = "done"
     /\ dret # 0
     /\ transfers > 0) => on_disk

(***************************************************************************)
(* curl.c: process_curl_error_codes, the status of a finished transfer.    *)
(***************************************************************************)

\* the results of curl_easy_perform the function names, and one it does not
CurlCodes ==
    {"CURLE_OK", "CURLE_HTTP_RETURNED_ERROR", "CURLE_RECV_ERROR",
     "CURLE_COULDNT_RESOLVE_PROXY", "CURLE_COULDNT_RESOLVE_HOST",
     "CURLE_COULDNT_CONNECT", "CURLE_FILE_COULDNT_READ_FILE",
     "CURLE_PARTIAL_FILE", "CURLE_WRITE_ERROR", "CURLE_OPERATION_TIMEDOUT",
     "CURLE_SSL_CACERT_BADFILE", "CURLE_SSL_CERTPROBLEM", "CURLE_RANGE_ERROR",
     "CURLE_SEND_ERROR"}

\* the response codes the handle may hold; 0 when no response was received
ResponseCodes == {0, 200, 206, 403, 404, 500}

\* the switch over the response code
response_status(resp) ==
    CASE resp = 206 -> DOWNLOAD_STATUS_PARTIAL_FILE
      [] resp \in {200, 0} -> DOWNLOAD_STATUS_COMPLETED
      [] resp = 403 -> DOWNLOAD_STATUS_FORBIDDEN
      [] resp = 404 -> DOWNLOAD_STATUS_NOT_FOUND
      [] OTHER -> DOWNLOAD_STATUS_ERROR

\* process_curl_error_codes: for CURLE_OK, CURLE_HTTP_RETURNED_ERROR and
\* CURLE_RECV_ERROR the switch over the response code, which is read from
\* the handle for the first two only and stays 0 for CURLE_RECV_ERROR; the
\* switch over curl_ret for the rest
process_curl_error_codes(code, info_ok, handle_response) ==
    IF code \in {"CURLE_OK", "CURLE_HTTP_RETURNED_ERROR", "CURLE_RECV_ERROR"}
    THEN LET resp == IF code \in {"CURLE_OK", "CURLE_HTTP_RETURNED_ERROR"}
                     THEN (IF info_ok THEN handle_response ELSE -1)
                     ELSE 0
         IN  response_status(resp)
    ELSE CASE code = "CURLE_FILE_COULDNT_READ_FILE" -> DOWNLOAD_STATUS_NOT_FOUND
           [] code = "CURLE_WRITE_ERROR" -> DOWNLOAD_STATUS_WRITE_ERROR
           [] code = "CURLE_OPERATION_TIMEDOUT" -> DOWNLOAD_STATUS_TIMEOUT
           [] code = "CURLE_RANGE_ERROR" -> DOWNLOAD_STATUS_RANGE_ERROR
           [] OTHER -> DOWNLOAD_STATUS_ERROR

\* a finished transfer: its result and what the handle holds; libcurl gives
\* CURLE_HTTP_RETURNED_ERROR only for a response code of 400 or more
CodesInputs ==
    /\ curl_ret \in CurlCodes
    /\ getinfo_ok \in BOOLEAN
    /\ response \in ResponseCodes
    /\ curl_ret = "CURLE_HTTP_RETURNED_ERROR" => response >= 400
    /\ code_status = "none"

InitCodes == CodesInputs /\ NoDownload /\ CurlIdle /\ BundleIdle /\ CleanIdle

ProcessCurlErrorCodes ==
    /\ curl_ret # "none"
    /\ code_status = "none"
    /\ code_status' = process_curl_error_codes(curl_ret, getinfo_ok, response)
    /\ UNCHANGED <<curl_ret, getinfo_ok, response>>
    /\ UNCHANGED <<dpc, curl, max_retries, retry_delay, content_url_is_local,
                   resume_ok, resume_download_supported, on_disk,
                   current_retry, sleep_time, status, dret, outcomes, sleeps,
                   transfers, entry, in_memory_file, calls, last_xfer,
                   range_error_seen, resumed_after_range_error>>
    /\ UNCHANGED ivars
    /\ UNCHANGED <<cvars, bvars>>

SpecCodes == InitCodes /\ [][ProcessCurlErrorCodes]_vars

\* C34: process_curl_error_codes returns DOWNLOAD_STATUS_COMPLETED only for
\* CURLE_OK with response code 200 or 0; every other result gives another
\* status
C34_CompletedOnlyForOk ==
    code_status = DOWNLOAD_STATUS_COMPLETED =>
        /\ curl_ret = "CURLE_OK"
        /\ response \in {200, 0}

(***************************************************************************)
(* curl.c: swupd_curl_init and swupd_curl_deinit.                          *)
(***************************************************************************)

\* what check_connection returns
CheckResults == {"0", "-1", "-SWUPD_BAD_CERT", "-CURLE_OPERATION_TIMEDOUT"}

\* the most directories in FALLBACK_CAPATHS, and their names
MaxFallbacks == 2
FallbackPath(i) == IF i = 1 THEN "capath1" ELSE IF i = 2 THEN "capath2"
                   ELSE "capath3"

\* for each directory of FALLBACK_CAPATHS what check_connection returns with
\* it, or "skip" when stat fails or it is no directory
FallbackResults ==
    UNION {[1..n -> CheckResults \cup {"skip"}] : n \in 0..MaxFallbacks}

\* the most calls of swupd_curl_init and swupd_curl_deinit in one process
MaxInitCalls == 3

\* the loop over FALLBACK_CAPATHS from its i-th token on: ret is what the
\* last check_connection returned
RECURSIVE fallback_loop(_, _, _)
fallback_loop(r, paths, i) ==
    IF i > Len(paths) THEN [ret |-> r, capath |-> "NULL"]
    ELSE IF paths[i] = "skip" THEN fallback_loop(r, paths, i + 1)
    ELSE IF paths[i] = "0" THEN [ret |-> "0", capath |-> FallbackPath(i)]
    ELSE fallback_loop(paths[i], paths, i + 1)

\* swupd_curl_init
SwupdCurlInit ==
    /\ dpc = "idle"
    /\ Len(init_log) < MaxInitCalls
    /\ IF curl
       THEN /\ init_log' = Append(init_log, [op |-> "init", ret |-> "0"])
            /\ UNCHANGED <<curl, capath, connected>>
       ELSE \E global_ok \in BOOLEAN, easy_ok \in BOOLEAN,
               first \in CheckResults, paths \in FallbackResults :
               IF ~global_ok \/ ~easy_ok
               THEN /\ init_log' = Append(init_log,
                                          [op |-> "init", ret |-> "-1"])
                    /\ UNCHANGED <<curl, capath, connected>>
               ELSE /\ curl' = TRUE
                    /\ IF first = "0"
                       THEN /\ init_log' = Append(init_log,
                                               [op |-> "init", ret |-> "0"])
                            /\ connected' = TRUE
                            /\ UNCHANGED capath
                       ELSE IF first = "-CURLE_OPERATION_TIMEDOUT"
                       THEN /\ init_log' = Append(init_log,
                                               [op |-> "init", ret |-> "-1"])
                            /\ UNCHANGED <<capath, connected>>
                       ELSE LET f == fallback_loop(first, paths, 1)
                            IN  /\ init_log' = Append(init_log,
                                              [op |-> "init", ret |-> f.ret])
                                /\ capath' = f.capath
                                /\ connected' = (f.ret = "0")
    /\ UNCHANGED <<dpc, max_retries, retry_delay, content_url_is_local,
                   resume_ok, resume_download_supported, on_disk,
                   current_retry, sleep_time, status, dret, outcomes, sleeps,
                   transfers, entry, in_memory_file, calls, last_xfer,
                   range_error_seen, resumed_after_range_error>>
    /\ UNCHANGED pvars
    /\ UNCHANGED <<cvars, bvars>>

\* swupd_curl_deinit
SwupdCurlDeinit ==
    /\ dpc = "idle"
    /\ Len(init_log) < MaxInitCalls
    /\ init_log' = Append(init_log, [op |-> "deinit", ret |-> "void"])
    /\ connected' = FALSE
    /\ IF curl
       THEN /\ curl' = FALSE
            /\ capath' = "NULL"
       ELSE UNCHANGED <<curl, capath>>
    /\ UNCHANGED <<dpc, max_retries, retry_delay, content_url_is_local,
                   resume_ok, resume_download_supported, on_disk,
                   current_retry, sleep_time, status, dret, outcomes, sleeps,
                   transfers, entry, in_memory_file, calls, last_xfer,
                   range_error_seen, resumed_after_range_error>>
    /\ UNCHANGED pvars
    /\ UNCHANGED <<cvars, bvars>>

InitCurl == DownloadIdle /\ BundleIdle /\ CleanIdle

CurlNext == SwupdCurlInit \/ SwupdCurlDeinit

SpecCurl == InitCurl /\ [][CurlNext]_vars

\* C38: a call of swupd_curl_init that returns 0 is one at or before which
\* check_connection returned 0 since the last swupd_curl_deinit
C38_InitOkOnlyIfConnected ==
    (/\ init_log # <<>>
     /\ init_log[Len(init_log)].op = "init"
     /\ init_log[Len(init_log)].ret = "0") => connected

\* C35: install_bundles returns SWUPD_OK only if every requested bundle is
\* installed when it returns, and never when the manifest of a requested
\* bundle or of one of its includes could not be loaded
C35_OkOnlyIfAllInstalled ==
    (InstallReturned /\ returned = SWUPD_OK) =>
        /\ ~load_failed
        /\ \A i \in DOMAIN args : Marker(args[i]) \in DOMAIN live

\* the bundles of the MoM reached from those of S by the includes of the
\* manifests
RECURSIVE IncludeClosure(_, _)
IncludeClosure(sys, S) ==
    LET here == S \cap sys.mom
        more == here \cup
                {c \in sys.mom : \E b \in here : c \in SeqToSet(sys.includes[b])}
    IN  IF more = here THEN here ELSE IncludeClosure(sys, more)

\* no bundle of the MoM is reached from its own includes
AcyclicIncludes(sys) ==
    \A b \in sys.mom : b \notin IncludeClosure(sys, SeqToSet(sys.includes[b]))

\* C36: a top-level add_subscriptions on an empty list, with acyclic
\* includes, that returns without add_sub_ERR leaves in subs exactly the
\* requested bundles of the MoM and the bundles of the MoM their includes
\* reach, all of them with find_all and those not installed without it
C36_SubsIsClosure ==
    (/\ SubscriptionsAdded
     /\ AcyclicIncludes(trav[1].sys)
     /\ add_sub_ERR \notin trav_out[1].res.ret) =>
        LET cl == IncludeClosure(trav[1].sys, SeqToSet(trav[1].bundles))
        IN  SeqToSet(trav_out[1].res.subs) =
               IF trav[1].find_all THEN cl ELSE cl \ trav[1].sys.installed

NoDuplicates(q) == \A i, j \in DOMAIN q : q[i] = q[j] => i = j

\* C37: a call of add_subscriptions on a list without duplicates, whatever
\* the includes and the list of bundles, a name more than once in it too,
\* leaves a list in which each component is subscribed at most once
C37_NoDuplicateSubscription ==
    (SubscriptionsAdded /\ NoDuplicates(trav[1].subs)) =>
        NoDuplicates(trav_out[1].res.subs)

C37_Witness ==
    /\ SubscriptionsAdded
    /\ trav[1].bundles = <<"A", "A">>
    /\ trav[1].subs # <<>>
    /\ Len(trav_out[1].res.subs) = 3

\* the entries of a depth-first walk from name at depth d: for each manifest
\* of the list that includes name, in the order of the list, its entry and
\* then the walk from it one level deeper
RECURSIVE DepthFirst(_, _, _)
DepthFirst(name, submanifests, d) ==
    LET RECURSIVE from(_)
        from(k) ==
            IF k > Len(submanifests) THEN <<>>
            ELSE (IF name \in SeqToSet(submanifests[k].includes)
                  THEN <<[indent |-> IF d = 1 THEN 2 ELSE 4 * (d - 1),
                          mark |-> IF d = 1 THEN "* " ELSE "|-- ",
                          name |-> submanifests[k].component]>>
                       \o DepthFirst(submanifests[k].component, submanifests,
                                     d + 1)
                  ELSE <<>>) \o from(k + 1)
    IN  from(1)

\* required_by has returned
RequiredByReturned ==
    /\ trav_out # <<>>
    /\ trav_out[1].fn = "required_by"
    /\ ~trav_out[1].res.diverged

\* C39: what required_by appends is the depth-first walk over
\* mom->submanifests: an entry for each manifest that includes the name,
\* followed at once by the entries of the walk from that manifest; an entry
\* of depth 1 is padded to 2 and marked "* ", one of depth d > 1 is padded
\* to 4 * (d - 1) and marked "|-- "; nothing is appended exactly when no
\* manifest includes the name
C39_DepthFirstWalk ==
    RequiredByReturned =>
        LET subm == TravSubmanifests(trav[1].sys)
            name == trav[1].bundles[1]
        IN  /\ trav_out[1].res.lines = DepthFirst(name, subm, 1)
            /\ trav_out[1].res.lines = <<>> <=>
                  ~\E k \in DOMAIN subm : name \in SeqToSet(subm[k].includes)

C39_Witness ==
    /\ RequiredByReturned
    /\ Len(trav_out[1].res.lines) >= 3
    /\ \E i \in DOMAIN trav_out[1].res.lines :
          trav_out[1].res.lines[i].indent = 8

====
